---- MODULE Spec2Model ----
(***************************************************************************)
(* Model of the text-buffer engine of masmide (src/src/ui/editor/):        *)
(* EditorState with its Buffers, the UndoStack, the Clipboard and the      *)
(* search state.  A Rust String is a sequence of bytes; a multi-byte       *)
(* character is a lead byte followed by continuation bytes, so that byte   *)
(* offsets, character indices and char boundaries are distinct notions.    *)
(* Line numbers, columns and buffer indices are 0-based as in the source.  *)
(* A Rust panic (out-of-range index, slice off a char boundary) is the     *)
(* flag `panic` of an operation's result and ends the process.             *)
(***************************************************************************)
EXTENDS Integers, Sequences, FiniteSets, TLC

(***************************************************************************)
(* Bounds of the model.                                                    *)
(***************************************************************************)
\* number of operations explored from EditorState::new
MaxOps == 4
\* largest max_size given to UndoStack::new in SpecCap
MaxCap == 2
\* number of operations explored in SpecCap
MaxCapOps == 3
\* number of operations explored in SpecSel
MaxSelOps == 2
MaxSrcOps == 2
MaxBrOps == 2
MaxNavOps == 2
MaxTypedOps == 3

(***************************************************************************)
(* Bytes and characters.                                                   *)
(***************************************************************************)
LF == "LF"
SP == " "
\* 'a' (1 byte), ' ' (1 byte), U+00E9 (2 bytes: lead C3, continuation A9)
ChA == <<"a">>
ChSp == <<SP>>
ChE == <<"C3", "A9">>
ContBytes == {"A9"}
Whitespace == {SP, LF}

Min(a, b) == IF a <= b THEN a ELSE b
Max(a, b) == IF a >= b THEN a ELSE b
SetMax(S) == CHOOSE m \in S : \A n \in S : n <= m
SetMin(S) == CHOOSE m \in S : \A n \in S : m <= n

\* s[a..b] of Rust: bytes a .. b-1
Slice(s, a, b) == SubSeq(s, a + 1, b)

\* str::is_char_boundary
is_char_boundary(s, idx) ==
    \/ idx = 0
    \/ idx = Len(s)
    \/ (idx < Len(s) /\ s[idx + 1] \notin ContBytes)

\* whether s[a..b] / drain(a..b) is legal: in range and on char boundaries
RangeOk(s, a, b) ==
    a <= b /\ b <= Len(s) /\ is_char_boundary(s, a) /\ is_char_boundary(s, b)

\* str::chars().count()
chars_count(s) == Cardinality({i \in 1..Len(s) : s[i] \notin ContBytes})

\* byte offsets at which the characters of s start, in order
CharStarts(s) == {i \in 0..(Len(s) - 1) : s[i + 1] \notin ContBytes}

\* str::to_lowercase, byte by byte over the model's alphabet
LowerByte(b) == IF b = "A" THEN "a" ELSE b
to_lowercase(s) == [i \in 1..Len(s) |-> LowerByte(s[i])]

RECURSIVE trim_start(_)
trim_start(s) ==
    IF s # <<>> /\ s[1] \in Whitespace THEN trim_start(Tail(s)) ELSE s

RECURSIVE trim_end(_)
trim_end(s) ==
    IF s # <<>> /\ s[Len(s)] \in Whitespace
    THEN trim_end(SubSeq(s, 1, Len(s) - 1)) ELSE s

trim(s) == trim_end(trim_start(s))

\* str::trim_end_matches('\n')
RECURSIVE trim_end_matches_lf(_)
trim_end_matches_lf(s) ==
    IF s # <<>> /\ s[Len(s)] = LF
    THEN trim_end_matches_lf(SubSeq(s, 1, Len(s) - 1)) ELSE s

ends_with(s, t) ==
    Len(t) <= Len(s) /\ SubSeq(s, Len(s) - Len(t) + 1, Len(s)) = t
starts_with(s, t) == Len(t) <= Len(s) /\ SubSeq(s, 1, Len(t)) = t

\* lines.join("\n")
RECURSIVE join_lines(_)
join_lines(ls) ==
    IF ls = <<>> THEN <<>>
    ELSE IF Len(ls) = 1 THEN ls[1]
    ELSE ls[1] \o <<LF>> \o join_lines(Tail(ls))

\* text.split('\n'): at least one segment, the last one possibly empty
RECURSIVE split_lf(_)
split_lf(t) ==
    IF \A i \in 1..Len(t) : t[i] # LF THEN <<t>>
    ELSE LET k == SetMin({i \in 1..Len(t) : t[i] = LF})
         IN <<SubSeq(t, 1, k - 1)>> \o split_lf(SubSeq(t, k + 1, Len(t)))

(***************************************************************************)
(* CursorOps (cursor.rs): boundary arithmetic over a line and an offset.   *)
(***************************************************************************)
clamp_to_char_boundary(s, idx) ==
    LET i == Min(idx, Len(s))
    IN SetMax({j \in 0..i : is_char_boundary(s, j)})

\* CursorOps::prev_char_boundary stepping back one byte
prev_byte(s, idx) == IF idx = 0 THEN 0 ELSE Min(idx, Len(s)) - 1

prev_char_boundary(s, idx) ==
    LET i == clamp_to_char_boundary(s, idx)
    IN IF i = 0 THEN 0
       ELSE SetMax({j \in 0..(i - 1) : j = 0 \/ is_char_boundary(s, j)})

\* len_utf8 of the character that starts at byte idx (idx < Len(s))
CharLenAt(s, idx) ==
    SetMin({j \in (idx + 1)..Len(s) : is_char_boundary(s, j)}) - idx

next_char_boundary(s, idx) ==
    LET i == clamp_to_char_boundary(s, idx)
    IN IF i >= Len(s) THEN Len(s)
       ELSE Min(i + CharLenAt(s, i), Len(s))

char_index_at_byte(s, byte_idx) ==
    chars_count(Slice(s, 0, clamp_to_char_boundary(s, byte_idx)))

byte_index_of_char(s, char_idx) ==
    IF char_idx = 0 THEN 0
    ELSE LET later == {b \in CharStarts(s) :
                          Cardinality({c \in CharStarts(s) : c < b}) = char_idx}
         IN IF later = {} THEN Len(s) ELSE SetMin(later)

(***************************************************************************)
(* Buffer (buffer.rs).  `text` is the rope, `lines` the cached line array. *)
(* None of an Option<(usize, usize)> is the empty tuple, None of the       *)
(* Option<PathBuf> is the path NoPath.                                      *)
(***************************************************************************)
NoPath == "none"
None == <<>>

\* Buffer::new
NewBuffer ==
    [text |-> <<LF>>, lines |-> << <<>> >>, cursor_x |-> 0, cursor_y |-> 0,
     scroll_offset |-> 0, file_path |-> NoPath, modified |-> FALSE,
     selection_start |-> None, selection_end |-> None]

\* Buffer::sync_rope
sync_rope(buf) == [buf EXCEPT !.text = join_lines(buf.lines) \o <<LF>>]

\* Buffer::get_content
get_content(buf) == buf.text

\* String::insert / insert_str at byte i (i on a char boundary)
InsertAt(s, i, t) == Slice(s, 0, i) \o t \o Slice(s, i, Len(s))
\* String::drain(a..b)
Drain(s, a, b) == Slice(s, 0, a) \o Slice(s, b, Len(s))
\* Vec::insert(at, x), at <= len
VecInsert(v, at, x) == SubSeq(v, 1, at) \o <<x>> \o SubSeq(v, at + 1, Len(v))
\* Vec::remove(at), at < len
VecRemove(v, at) == SubSeq(v, 1, at) \o SubSeq(v, at + 2, Len(v))

\* CursorOps::set_cursor_x_char_boundary
set_cursor_x_char_boundary(buf) ==
    IF buf.cursor_y >= Len(buf.lines) THEN [buf EXCEPT !.cursor_x = 0]
    ELSE [buf EXCEPT !.cursor_x =
              clamp_to_char_boundary(buf.lines[buf.cursor_y + 1], buf.cursor_x)]

\* CursorOps::clamp_cursor_x
clamp_cursor_x(buf) ==
    IF buf.cursor_y >= Len(buf.lines) THEN [buf EXCEPT !.cursor_x = 0]
    ELSE LET line == buf.lines[buf.cursor_y + 1]
         IN [buf EXCEPT !.cursor_x =
                clamp_to_char_boundary(line, Min(buf.cursor_x, Len(line)))]

(***************************************************************************)
(* EditorAction (undo.rs): one record shape per variant.                    *)
(***************************************************************************)
InsertChar(line, col, ch) ==
    [kind |-> "InsertChar", line |-> line, col |-> col, ch |-> ch]
DeleteChar(line, col, ch) ==
    [kind |-> "DeleteChar", line |-> line, col |-> col, ch |-> ch]
InsertLine(line_num, content) ==
    [kind |-> "InsertLine", line_num |-> line_num, content |-> content]
DeleteLine(line_num, content) ==
    [kind |-> "DeleteLine", line_num |-> line_num, content |-> content]
ReplaceLine(line_num, old, new) ==
    [kind |-> "ReplaceLine", line_num |-> line_num, old |-> old, new |-> new]
SplitLine(line, col) == [kind |-> "SplitLine", line |-> line, col |-> col]
JoinLines(line, col, deleted_content) ==
    [kind |-> "JoinLines", line |-> line, col |-> col,
     deleted_content |-> deleted_content]
InsertText(start_line, start_col, end_line, end_col, text) ==
    [kind |-> "InsertText", start_line |-> start_line, start_col |-> start_col,
     end_line |-> end_line, end_col |-> end_col, text |-> text]
DeleteText(start_line, start_col, end_line, end_col, text) ==
    [kind |-> "DeleteText", start_line |-> start_line, start_col |-> start_col,
     end_line |-> end_line, end_col |-> end_col, text |-> text]
Batch(actions) == [kind |-> "Batch", actions |-> actions]

(***************************************************************************)
(* The editor as a value.  Operations map an editor value to the editor    *)
(* value they leave; `panic` says the operation panicked, `ret` is what it *)
(* returned, `pushed` counts its calls of UndoStack::push.                 *)
(***************************************************************************)
Buf(e) == e.buffers[e.active_buffer + 1]
SetBuf(e, b) == [e EXCEPT !.buffers[e.active_buffer + 1] = b]
Panic(e) == [e EXCEPT !.panic = TRUE]
Ret(e, r) == [e EXCEPT !.ret = r]

\* UndoStack::push without its while loop
TrimFrontNever(s, max_size) == s

\* the while loop of UndoStack::push: drop from the front down to max_size
TrimFront(s, max_size) ==
    IF Len(s) > max_size THEN SubSeq(s, Len(s) - max_size + 1, Len(s)) ELSE s

\* UndoStack::push without redo_stack.clear()
push_keeping_redo(e, action) ==
    [e EXCEPT !.undo_stack = TrimFront(Append(e.undo_stack, action), e.max_size),
              !.pushed = @ + 1]

\* UndoStack::push
push(e, action) ==
    [e EXCEPT !.undo_stack = TrimFront(Append(e.undo_stack, action), e.max_size),
              !.redo_stack = <<>>,
              !.pushed = @ + 1]

\* UndoStack::push_redo
push_redo(e, action) == [e EXCEPT !.redo_stack = Append(@, action)]

\* the push_back of EditorState::redo
push_back_undo(e, action) == [e EXCEPT !.undo_stack = Append(@, action)]

\* EditorState::clear_search
clear_search(e) ==
    [e EXCEPT !.search_query = <<>>, !.search_matches = <<>>,
              !.current_match = 0]

(***************************************************************************)
(* Clipboard (clipboard.rs).  The system clipboard is the environment's:   *)
(* reachable or not (system_ok), holding system_text.                      *)
(***************************************************************************)
\* Clipboard::copy
copy(e, text, yank_type) ==
    [e EXCEPT !.clipboard =
        [yank_buffer |-> text, yank_type |-> yank_type,
         system_ok |-> @.system_ok,
         system_text |-> IF @.system_ok THEN text ELSE @.system_text]]

\* Clipboard::paste without the comparison with yank_buffer
paste_as_external(e) ==
    LET cb == e.clipboard
    IN IF cb.system_ok /\ cb.system_text # <<>>
       THEN [some |-> TRUE, text |-> cb.system_text, yank_type |-> "Char"]
       ELSE IF cb.yank_buffer = <<>>
            THEN [some |-> FALSE, text |-> <<>>, yank_type |-> "Char"]
            ELSE [some |-> TRUE, text |-> cb.yank_buffer, yank_type |-> cb.yank_type]

\* Clipboard::paste: [some, text, yank_type]
paste(e) ==
    LET cb == e.clipboard
    IN IF cb.system_ok /\ cb.system_text # <<>>
       THEN IF cb.system_text = cb.yank_buffer
            THEN [some |-> TRUE, text |-> cb.system_text, yank_type |-> cb.yank_type]
            ELSE [some |-> TRUE, text |-> cb.system_text, yank_type |-> "Char"]
       ELSE IF cb.yank_buffer = <<>>
            THEN [some |-> FALSE, text |-> <<>>, yank_type |-> "Char"]
            ELSE [some |-> TRUE, text |-> cb.yank_buffer, yank_type |-> cb.yank_type]

(***************************************************************************)
(* Editing operations (mod.rs, edit.rs).                                   *)
(***************************************************************************)
RECURSIVE leading_ws(_)
leading_ws(s) ==
    IF s # <<>> /\ s[1] \in Whitespace THEN <<s[1]>> \o leading_ws(Tail(s))
    ELSE <<>>

\* EditOps::calculate_indent looking only at the leading whitespace
calculate_indent_flat(line) == leading_ws(line)

\* EditOps::calculate_indent
calculate_indent(line) ==
    LET trimmed == to_lowercase(trim(line))
        increase_indent ==
            \/ ends_with(trimmed, <<"p", "r", "o", "c">>)
            \/ ends_with(trimmed, <<"m", "a", "c", "r", "o">>)
            \/ ends_with(trimmed, <<":">>)
            \/ starts_with(trimmed, <<".", "d", "a", "t", "a">>)
            \/ starts_with(trimmed, <<".", "c", "o", "d", "e">>)
    IN IF increase_indent THEN leading_ws(line) \o <<SP, SP, SP, SP>>
       ELSE leading_ws(line)

\* EditorState::insert_char without buf.modified = true
insert_char_unflagged(e, c) ==
    LET buf == Buf(e)
    IN IF buf.cursor_y >= Len(buf.lines) THEN e
       ELSE LET line == buf.lines[buf.cursor_y + 1]
                col_b == clamp_to_char_boundary(line, buf.cursor_x)
                col_c == char_index_at_byte(line, col_b)
                nb == sync_rope([buf EXCEPT
                          !.lines[buf.cursor_y + 1] = InsertAt(line, col_b, c),
                          !.cursor_x = col_b + Len(c)])
            IN clear_search(push(SetBuf(e, nb),
                                 InsertChar(buf.cursor_y, col_c, c)))

\* EditorState::insert_char
insert_char(e, c) ==
    LET buf == Buf(e)
    IN IF buf.cursor_y >= Len(buf.lines) THEN e
       ELSE LET line == buf.lines[buf.cursor_y + 1]
                col_b == clamp_to_char_boundary(line, buf.cursor_x)
                col_c == char_index_at_byte(line, col_b)
                nb == sync_rope([buf EXCEPT
                          !.lines[buf.cursor_y + 1] = InsertAt(line, col_b, c),
                          !.cursor_x = col_b + Len(c),
                          !.modified = TRUE])
            IN clear_search(push(SetBuf(e, nb),
                                 InsertChar(buf.cursor_y, col_c, c)))

\* EditorState::insert_newline_with_indent without the assignment of
\* current_line[..col_b] to the current line
insert_newline_not_truncating(e, auto_indent) ==
    LET buf == Buf(e)
    IN IF buf.cursor_y >= Len(buf.lines) THEN e
       ELSE LET ln == buf.cursor_y
                current_line == buf.lines[ln + 1]
                col_b == clamp_to_char_boundary(current_line, buf.cursor_x)
                col_c == char_index_at_byte(current_line, col_b)
                remainder == Slice(current_line, col_b, Len(current_line))
                indent == IF auto_indent THEN calculate_indent(current_line)
                          ELSE <<>>
                nb == sync_rope([buf EXCEPT
                          !.lines = VecInsert(buf.lines, ln + 1,
                                              indent \o remainder),
                          !.cursor_y = ln + 1,
                          !.cursor_x = Len(indent),
                          !.modified = TRUE])
            IN clear_search(push(SetBuf(e, nb), SplitLine(ln, col_c)))

\* EditorState::insert_newline_with_indent
insert_newline_with_indent(e, auto_indent) ==
    LET buf == Buf(e)
    IN IF buf.cursor_y >= Len(buf.lines) THEN e
       ELSE LET ln == buf.cursor_y
                current_line == buf.lines[ln + 1]
                col_b == clamp_to_char_boundary(current_line, buf.cursor_x)
                col_c == char_index_at_byte(current_line, col_b)
                remainder == Slice(current_line, col_b, Len(current_line))
                kept == Slice(current_line, 0, col_b)
                indent == IF auto_indent THEN calculate_indent(kept) ELSE <<>>
                nb == sync_rope([buf EXCEPT
                          !.lines = VecInsert([buf.lines EXCEPT ![ln + 1] = kept],
                                              ln + 1, indent \o remainder),
                          !.cursor_y = ln + 1,
                          !.cursor_x = Len(indent),
                          !.modified = TRUE])
            IN clear_search(push(SetBuf(e, nb), SplitLine(ln, col_c)))

\* EditorState::insert_newline
insert_newline(e) == insert_newline_with_indent(e, e.auto_indent)

\* EditorState::backspace
backspace(e) ==
    LET buf == Buf(e)
        cy == buf.cursor_y
    IN IF cy >= Len(buf.lines) THEN clear_search(e)
       ELSE IF buf.cursor_x > 0
       THEN LET line == buf.lines[cy + 1]
                end == clamp_to_char_boundary(line, buf.cursor_x)
                start == prev_char_boundary(line, end)
            IN IF start = end
               THEN clear_search(SetBuf(e, [buf EXCEPT !.cursor_x = end]))
               ELSE LET nb == sync_rope([buf EXCEPT
                                  !.lines[cy + 1] = Drain(line, start, end),
                                  !.cursor_x = start,
                                  !.modified = TRUE])
                    IN clear_search(push(SetBuf(e, nb),
                           DeleteChar(cy, char_index_at_byte(line, start),
                                      Slice(line, start, end))))
       ELSE IF cy > 0
       THEN LET current_line == buf.lines[cy + 1]
                prev_line == buf.lines[cy]
                joined == prev_line \o current_line
                nb == sync_rope([buf EXCEPT
                          !.lines = [VecRemove(buf.lines, cy) EXCEPT ![cy] = joined],
                          !.cursor_y = cy - 1,
                          !.cursor_x = Len(joined),
                          !.modified = TRUE])
            IN clear_search(push(SetBuf(e, nb),
                   JoinLines(cy - 1, chars_count(prev_line), current_line)))
       ELSE clear_search(e)

\* EditorState::delete_char
delete_char(e) ==
    LET buf == Buf(e)
        cy == buf.cursor_y
    IN IF cy >= Len(buf.lines) THEN clear_search(e)
       ELSE LET line == buf.lines[cy + 1]
                cx == clamp_to_char_boundary(line, buf.cursor_x)
                b1 == [buf EXCEPT !.cursor_x = cx]
            IN IF cx < Len(line)
               THEN LET end == next_char_boundary(line, cx)
                    IN IF end <= cx THEN clear_search(SetBuf(e, b1))
                       ELSE LET nb == sync_rope([b1 EXCEPT
                                          !.lines[cy + 1] = Drain(line, cx, end),
                                          !.modified = TRUE])
                            IN clear_search(push(SetBuf(e, nb),
                                   DeleteChar(cy, char_index_at_byte(line, cx),
                                              Slice(line, cx, end))))
               ELSE IF cy + 1 < Len(buf.lines)
               THEN LET next_line == buf.lines[cy + 2]
                        nb == sync_rope([b1 EXCEPT
                                  !.lines = [VecRemove(buf.lines, cy + 1)
                                                EXCEPT ![cy + 1] = line \o next_line],
                                  !.modified = TRUE])
                    IN clear_search(push(SetBuf(e, nb),
                           JoinLines(cy, chars_count(line), next_line)))
               ELSE clear_search(SetBuf(e, b1))

\* EditorState::delete_line without the test `!content.is_empty()`
delete_line_always_recording(e) ==
    LET buf == Buf(e)
        ln == buf.cursor_y
    IN IF Len(buf.lines) > 1
       THEN IF ln >= Len(buf.lines) THEN Panic(e)
            ELSE LET c == buf.lines[ln + 1]
                     ls == VecRemove(buf.lines, ln)
                     nb == sync_rope([clamp_cursor_x([buf EXCEPT
                                          !.lines = ls,
                                          !.cursor_y = IF ln >= Len(ls)
                                                       THEN Len(ls) - 1 ELSE ln])
                                        EXCEPT !.modified = TRUE])
                 IN clear_search(push(copy(SetBuf(e, nb), c \o <<LF>>, "Line"),
                                      DeleteLine(ln, c)))
       ELSE IF Len(buf.lines) = 0 THEN Panic(e)
       ELSE LET c == buf.lines[1]
                nb == sync_rope([buf EXCEPT !.lines[1] = <<>>, !.cursor_x = 0,
                                            !.modified = TRUE])
                e1 == copy(SetBuf(e, nb), c \o <<LF>>, "Line")
            IN clear_search(push(e1, ReplaceLine(ln, c, <<>>)))

\* EditorState::delete_line
delete_line(e) ==
    LET buf == Buf(e)
        ln == buf.cursor_y
    IN IF Len(buf.lines) > 1
       THEN IF ln >= Len(buf.lines) THEN Panic(e)     \* lines.remove(cursor_y)
            ELSE LET c == buf.lines[ln + 1]
                     ls == VecRemove(buf.lines, ln)
                     nb == sync_rope([clamp_cursor_x([buf EXCEPT
                                          !.lines = ls,
                                          !.cursor_y = IF ln >= Len(ls)
                                                       THEN Len(ls) - 1 ELSE ln])
                                        EXCEPT !.modified = TRUE])
                 IN clear_search(push(copy(SetBuf(e, nb), c \o <<LF>>, "Line"),
                                      DeleteLine(ln, c)))
       ELSE IF Len(buf.lines) = 0 THEN Panic(e)       \* lines[0]
       ELSE LET c == buf.lines[1]
                nb == sync_rope([buf EXCEPT !.lines[1] = <<>>, !.cursor_x = 0,
                                            !.modified = TRUE])
                e1 == copy(SetBuf(e, nb), c \o <<LF>>, "Line")
            IN clear_search(IF c # <<>> THEN push(e1, ReplaceLine(ln, c, <<>>))
                            ELSE e1)

\* the loop of EditorState::insert_tab: n more calls of insert_char(' ')
RECURSIVE insert_spaces(_, _)
insert_spaces(e, n) ==
    IF n = 0 THEN e ELSE insert_spaces(insert_char(e, ChSp), n - 1)

(***************************************************************************)
(* Cursor movement (cursor.rs).                                            *)
(***************************************************************************)
move_up(buf) ==
    IF buf.cursor_y > 0 THEN clamp_cursor_x([buf EXCEPT !.cursor_y = @ - 1])
    ELSE buf

move_down(buf) ==
    IF buf.cursor_y + 1 < Len(buf.lines)
    THEN clamp_cursor_x([buf EXCEPT !.cursor_y = @ + 1])
    ELSE buf

move_left(buf) ==
    IF buf.cursor_y >= Len(buf.lines)
    THEN [buf EXCEPT !.cursor_y = 0, !.cursor_x = 0]
    ELSE LET line == buf.lines[buf.cursor_y + 1]
             cx == clamp_to_char_boundary(line, buf.cursor_x)
         IN IF cx > 0 THEN [buf EXCEPT !.cursor_x = prev_char_boundary(line, cx)]
            ELSE IF buf.cursor_y > 0
            THEN set_cursor_x_char_boundary([buf EXCEPT
                     !.cursor_y = @ - 1,
                     !.cursor_x = Len(buf.lines[buf.cursor_y])])
            ELSE [buf EXCEPT !.cursor_x = cx]

\* CursorOps::move_right stepping one byte instead of one character
move_right_one_byte(buf) ==
    IF buf.cursor_y >= Len(buf.lines)
    THEN [buf EXCEPT !.cursor_y = 0, !.cursor_x = 0]
    ELSE LET line == buf.lines[buf.cursor_y + 1]
             cx == clamp_to_char_boundary(line, buf.cursor_x)
         IN IF cx < Len(line)
            THEN [buf EXCEPT !.cursor_x = cx + 1]
            ELSE IF buf.cursor_y + 1 < Len(buf.lines)
            THEN [buf EXCEPT !.cursor_y = @ + 1, !.cursor_x = 0]
            ELSE [buf EXCEPT !.cursor_x = cx]

move_right(buf) ==
    IF buf.cursor_y >= Len(buf.lines)
    THEN [buf EXCEPT !.cursor_y = 0, !.cursor_x = 0]
    ELSE LET line == buf.lines[buf.cursor_y + 1]
             cx == clamp_to_char_boundary(line, buf.cursor_x)
         IN IF cx < Len(line)
            THEN [buf EXCEPT !.cursor_x = next_char_boundary(line, cx)]
            ELSE IF buf.cursor_y + 1 < Len(buf.lines)
            THEN [buf EXCEPT !.cursor_y = @ + 1, !.cursor_x = 0]
            ELSE [buf EXCEPT !.cursor_x = cx]

move_to_line_start(buf) == [buf EXCEPT !.cursor_x = 0]

move_to_line_end(buf) ==
    IF buf.cursor_y < Len(buf.lines)
    THEN [buf EXCEPT !.cursor_x = Len(buf.lines[buf.cursor_y + 1])]
    ELSE buf

\* EditorState::go_to_line
go_to_line(e, line_num) ==
    LET buf == Buf(e)
        target == Min(Max(line_num - 1, 0), Max(Len(buf.lines) - 1, 0))
    IN SetBuf(e, [buf EXCEPT !.cursor_y = target, !.cursor_x = 0])

(***************************************************************************)
(* Paste (mod.rs, clipboard.rs).                                           *)
(***************************************************************************)
\* EditorState::yank_line that also flags the buffer as modified
yank_line_flagging(e) ==
    LET buf == Buf(e)
    IN IF buf.cursor_y < Len(buf.lines)
       THEN copy(SetBuf(e, [buf EXCEPT !.modified = TRUE]),
                 buf.lines[buf.cursor_y + 1] \o <<LF>>, "Line")
       ELSE e

\* EditorState::yank_line
yank_line(e) ==
    LET buf == Buf(e)
    IN IF buf.cursor_y < Len(buf.lines)
       THEN copy(e, buf.lines[buf.cursor_y + 1] \o <<LF>>, "Line")
       ELSE e

\* clipboard::paste_text_inline
paste_text_inline(e, text) ==
    LET buf == Buf(e)
        start_line == buf.cursor_y
    IN IF text = <<>> \/ start_line >= Len(buf.lines) THEN e
       ELSE LET current_line == buf.lines[start_line + 1]
                insert_pos == clamp_to_char_boundary(current_line,
                                  Min(buf.cursor_x, Len(current_line)))
                start_col_char == char_index_at_byte(current_line, insert_pos)
                prefix == Slice(current_line, 0, insert_pos)
                suffix == Slice(current_line, insert_pos, Len(current_line))
                paste_lines == split_lf(text)
                n == Len(paste_lines)
                result_lines ==
                    [idx \in 1..n |->
                        IF idx = 1 THEN prefix \o paste_lines[idx]
                        ELSE IF idx = n THEN paste_lines[idx] \o suffix
                        ELSE paste_lines[idx]]
                end_line == start_line + n - 1
                last_pasted_line == paste_lines[n]
                nb == [buf EXCEPT
                          !.lines = SubSeq(buf.lines, 1, start_line)
                                    \o result_lines
                                    \o SubSeq(buf.lines, start_line + 2, Len(buf.lines)),
                          !.cursor_y = end_line,
                          !.cursor_x = Len(last_pasted_line),
                          !.modified = TRUE]
            IN push(SetBuf(e, nb),
                    InsertText(start_line, start_col_char, end_line,
                               chars_count(last_pasted_line), text))

\* the YankType::Line arm of paste_after / paste_before, inserting at `at`
paste_line(e, text, at, move_cursor) ==
    LET buf == Buf(e)
        line_content == trim_end_matches_lf(text)
    IN IF at > Len(buf.lines) THEN Panic(e)          \* lines.insert(at, ..)
       ELSE push(SetBuf(e, [buf EXCEPT
                     !.lines = VecInsert(buf.lines, at, line_content),
                     !.cursor_y = IF move_cursor THEN at ELSE @,
                     !.cursor_x = 0,
                     !.modified = TRUE]),
                 InsertLine(at, line_content))

\* EditorState::paste_after
paste_after(e) ==
    LET p == paste(e)
    IN IF ~p.some \/ p.text = <<>> THEN e
       ELSE IF p.yank_type = "Line"
       THEN paste_line(e, p.text, Buf(e).cursor_y + 1, TRUE)
       ELSE paste_text_inline(e, p.text)

\* EditorState::paste_before
paste_before(e) ==
    LET p == paste(e)
    IN IF ~p.some \/ p.text = <<>> THEN e
       ELSE IF p.yank_type = "Line"
       THEN paste_line(e, p.text, Buf(e).cursor_y, FALSE)
       ELSE paste_text_inline(e, p.text)

\* clipboard::undo_insert_text: [buf, panic]
undo_insert_text(buf, start_line, start_col, text) ==
    LET lines == split_lf(text)
        n == Len(lines)
    IN IF n = 1
       THEN IF start_line < Len(buf.lines)
            THEN LET line == buf.lines[start_line + 1]
                     start_byte == byte_index_of_char(line, start_col)
                     end_byte == start_byte + Len(text)
                 IN IF end_byte <= Len(line)
                    THEN IF ~RangeOk(line, start_byte, end_byte)
                         THEN [buf |-> buf, panic |-> TRUE]      \* drain
                         ELSE [buf |-> [buf EXCEPT
                                   !.lines[start_line + 1] =
                                       Drain(line, start_byte, end_byte),
                                   !.cursor_y = start_line,
                                   !.cursor_x = start_byte,
                                   !.modified = TRUE],
                               panic |-> FALSE]
                    ELSE [buf |-> buf, panic |-> FALSE]
            ELSE [buf |-> buf, panic |-> FALSE]
       ELSE LET end_line == start_line + n - 1
            IN IF end_line < Len(buf.lines)
               THEN LET first == buf.lines[start_line + 1]
                        prefix == Slice(first, 0, byte_index_of_char(first, start_col))
                        last == buf.lines[end_line + 1]
                        last_line_len == Len(lines[n])
                    IN IF ~RangeOk(last, last_line_len, Len(last))
                       THEN [buf |-> buf, panic |-> TRUE]   \* [last_line_len..]
                       ELSE LET suffix == Slice(last, last_line_len, Len(last))
                                merged == prefix \o suffix
                            IN [buf |-> [buf EXCEPT
                                    !.lines = SubSeq(buf.lines, 1, start_line)
                                              \o <<merged>>
                                              \o SubSeq(buf.lines, end_line + 2,
                                                        Len(buf.lines)),
                                    !.cursor_y = start_line,
                                    !.cursor_x = byte_index_of_char(merged, start_col),
                                    !.modified = TRUE],
                                panic |-> FALSE]
               ELSE [buf |-> buf, panic |-> FALSE]

\* clipboard::redo_insert_text: [buf, panic]
redo_insert_text(buf, start_line, start_col, text) ==
    LET lines == split_lf(text)
        n == Len(lines)
    IN IF start_line >= Len(buf.lines) THEN [buf |-> buf, panic |-> FALSE]
       ELSE LET line == buf.lines[start_line + 1]
                insert_pos == byte_index_of_char(line, start_col)
            IN IF n = 1
               THEN [buf |-> [buf EXCEPT
                         !.lines[start_line + 1] = InsertAt(line, insert_pos, text),
                         !.cursor_x = insert_pos + Len(text),
                         !.cursor_y = start_line,
                         !.modified = TRUE],
                     panic |-> FALSE]
               ELSE LET prefix == Slice(line, 0, insert_pos)
                        suffix == Slice(line, insert_pos, Len(line))
                        end_line == start_line + n - 1
                    IN [buf |-> [buf EXCEPT
                            !.lines = SubSeq(buf.lines, 1, start_line)
                                      \o <<prefix \o lines[1]>>
                                      \o SubSeq(lines, 2, n - 1)
                                      \o <<lines[n] \o suffix>>
                                      \o SubSeq(buf.lines, start_line + 2,
                                                Len(buf.lines)),
                            !.cursor_y = end_line,
                            !.cursor_x = Len(lines[n]),
                            !.modified = TRUE],
                        panic |-> FALSE]

(***************************************************************************)
(* Selection (selection.rs).  An anchor is <<line, byte_col>>.             *)
(***************************************************************************)
start_selection(buf) ==
    [buf EXCEPT !.selection_start = <<buf.cursor_y, buf.cursor_x>>,
                !.selection_end = <<buf.cursor_y, buf.cursor_x>>]

\* SelectionOps::update_selection without the test selection_start.is_some()
update_selection_always(buf) ==
    [buf EXCEPT !.selection_end = <<buf.cursor_y, buf.cursor_x>>]

\* SelectionOps::update_selection
update_selection(buf) ==
    IF buf.selection_start # None
    THEN [buf EXCEPT !.selection_end = <<buf.cursor_y, buf.cursor_x>>]
    ELSE buf

clear_selection(buf) ==
    [buf EXCEPT !.selection_start = None, !.selection_end = None]

\* SelectionOps::get_selection_range: None or <<start, end>>
get_selection_range(buf) ==
    IF buf.selection_start # None /\ buf.selection_end # None
    THEN LET start == buf.selection_start
             end == buf.selection_end
         IN IF start[1] < end[1] \/ (start[1] = end[1] /\ start[2] <= end[2])
            THEN <<start, end>> ELSE <<end, start>>
    ELSE None

\* SelectionOps::extract_selection_text without result.push('\n')
extract_without_breaks(buf, start_line, start_col, end_line, end_col) ==
    IF start_line = end_line
    THEN IF start_line < Len(buf.lines)
         THEN LET line == buf.lines[start_line + 1]
              IN Slice(line, clamp_to_char_boundary(line, start_col),
                             clamp_to_char_boundary(line, end_col))
         ELSE <<>>
    ELSE LET last == Min(end_line, Len(buf.lines) - 1)
             part(i) ==
                 LET line == buf.lines[i + 1]
                 IN IF i = start_line
                    THEN Slice(line, clamp_to_char_boundary(line, start_col), Len(line))
                    ELSE IF i = end_line
                    THEN Slice(line, 0, clamp_to_char_boundary(line, end_col))
                    ELSE line
             F[i \in Nat] ==
                 IF i > last THEN <<>> ELSE part(i) \o F[i + 1]
         IN F[start_line]

\* SelectionOps::extract_selection_text
extract_selection_text(buf, start_line, start_col, end_line, end_col) ==
    IF start_line = end_line
    THEN IF start_line < Len(buf.lines)
         THEN LET line == buf.lines[start_line + 1]
              IN Slice(line, clamp_to_char_boundary(line, start_col),
                             clamp_to_char_boundary(line, end_col))
         ELSE <<>>
    ELSE LET last == Min(end_line, Len(buf.lines) - 1)
             part(i) ==
                 LET line == buf.lines[i + 1]
                 IN IF i = start_line
                    THEN Slice(line, clamp_to_char_boundary(line, start_col), Len(line))
                    ELSE IF i = end_line
                    THEN <<LF>> \o Slice(line, 0, clamp_to_char_boundary(line, end_col))
                    ELSE <<LF>> \o line
             F[i \in Nat] ==
                 IF i > last THEN <<>> ELSE part(i) \o F[i + 1]
         IN F[start_line]

\* EditorState::yank_selection
yank_selection(e) ==
    LET r == get_selection_range(Buf(e))
    IN IF r # None
       THEN Ret(copy(e, extract_selection_text(Buf(e), r[1][1], r[1][2],
                                               r[2][1], r[2][2]), "Char"),
                "true")
       ELSE Ret(e, "false")

\* SelectionOps::delete_selection (through EditorState::delete_selection)
delete_selection(e) ==
    LET buf == Buf(e)
        r == get_selection_range(buf)
    IN IF r = None THEN Ret(e, "false")
       ELSE LET start_line == r[1][1]
                start_col == r[1][2]
                end_line == r[2][1]
                end_col == r[2][2]
                text == extract_selection_text(buf, start_line, start_col,
                                               end_line, end_col)
                e1 == copy(e, text, "Char")
                single ==
                    IF start_line < Len(buf.lines)
                    THEN LET line == buf.lines[start_line + 1]
                             start_byte == clamp_to_char_boundary(line, start_col)
                             end_byte == clamp_to_char_boundary(line, end_col)
                         IN [buf EXCEPT
                                !.lines[start_line + 1] =
                                    Drain(line, start_byte, end_byte),
                                !.cursor_x = start_byte,
                                !.cursor_y = start_line,
                                !.modified = TRUE]
                    ELSE buf
                start_byte ==
                    IF start_line < Len(buf.lines)
                    THEN clamp_to_char_boundary(buf.lines[start_line + 1], start_col)
                    ELSE 0
                end_byte ==
                    IF end_line < Len(buf.lines)
                    THEN clamp_to_char_boundary(buf.lines[end_line + 1], end_col)
                    ELSE 0
                \* the loop removing the middle lines, one per iteration
                removed == Min(end_line - start_line - 1,
                               Max(Len(buf.lines) - (start_line + 1), 0))
                mid == IF removed <= 0 THEN buf.lines
                       ELSE SubSeq(buf.lines, 1, start_line + 1)
                            \o SubSeq(buf.lines, start_line + 2 + removed,
                                      Len(buf.lines))
                joinable == start_line < Len(mid) /\ start_line + 1 < Len(mid)
                slice_ok == RangeOk(mid[start_line + 2], end_byte,
                                    Len(mid[start_line + 2]))
                joined ==
                    IF joinable
                    THEN [VecRemove(mid, start_line + 1) EXCEPT
                             ![start_line + 1] =
                                 Slice(mid[start_line + 1], 0, start_byte)
                                 \o Slice(mid[start_line + 2], end_byte,
                                          Len(mid[start_line + 2]))]
                    ELSE mid
                multi == [buf EXCEPT !.lines = joined,
                                     !.cursor_x = start_byte,
                                     !.cursor_y = start_line,
                                     !.modified = TRUE]
                action == DeleteText(start_line, start_col, end_line, end_col, text)
            IN IF start_line = end_line
               THEN Ret(push(SetBuf(e1, clear_selection(single)), action), "true")
               ELSE IF joinable /\ ~slice_ok THEN Panic(e)
               ELSE Ret(push(SetBuf(e1, clear_selection(multi)), action), "true")

(***************************************************************************)
(* Search (mod.rs).  A match is <<line, byte_col>>.                        *)
(***************************************************************************)
\* str::find: the first byte offset of needle in hay, or -1
find(hay, needle) ==
    LET hits == {i \in 0..(Len(hay) - Len(needle)) :
                    Slice(hay, i, i + Len(needle)) = needle}
    IN IF hits = {} THEN -1 ELSE SetMin(hits)

\* the while loop of search over one line: [matches, panic]
RECURSIVE search_line(_, _, _, _)
search_line(line_lower, query_lower, line_idx, start) ==
    IF ~RangeOk(line_lower, start, Len(line_lower))
    THEN [matches |-> <<>>, panic |-> TRUE]          \* line_lower[start..]
    ELSE LET pos == find(Slice(line_lower, start, Len(line_lower)), query_lower)
         IN IF pos < 0 THEN [matches |-> <<>>, panic |-> FALSE]
            ELSE LET rest == search_line(line_lower, query_lower, line_idx,
                                         start + pos + 1)
                 IN [matches |-> << <<line_idx, start + pos>> >> \o rest.matches,
                     panic |-> rest.panic]

\* the for loop of search over the lines from line_idx on: [matches, panic]
RECURSIVE search_lines(_, _, _)
search_lines(lines, query_lower, line_idx) ==
    IF line_idx >= Len(lines) THEN [matches |-> <<>>, panic |-> FALSE]
    ELSE LET here == search_line(to_lowercase(lines[line_idx + 1]), query_lower,
                                 line_idx, 0)
             rest == search_lines(lines, query_lower, line_idx + 1)
         IN IF here.panic THEN here
            ELSE [matches |-> here.matches \o rest.matches,
                  panic |-> rest.panic]

\* EditorState::search
search(e, query) ==
    LET e1 == [e EXCEPT !.search_query = query, !.search_matches = <<>>,
                        !.current_match = 0]
    IN IF query = <<>> THEN e1
       ELSE LET r == search_lines(Buf(e).lines, to_lowercase(query), 0)
            IN IF r.panic THEN Panic([e1 EXCEPT !.search_matches = r.matches])
               ELSE [e1 EXCEPT !.search_matches = r.matches]

\* EditorState::jump_to_current_match
jump_to_current_match(e) ==
    IF e.current_match < Len(e.search_matches)
    THEN LET m == e.search_matches[e.current_match + 1]
         IN SetBuf(e, [Buf(e) EXCEPT !.cursor_y = m[1], !.cursor_x = m[2]])
    ELSE e

\* EditorState::find_next
find_next(e) ==
    IF e.search_matches = <<>> THEN e
    ELSE jump_to_current_match(
             [e EXCEPT !.current_match = (@ + 1) % Len(e.search_matches)])

\* EditorState::find_prev wrapping from the first match to len() instead of
\* len() - 1
find_prev_past_end(e) ==
    IF e.search_matches = <<>> THEN e
    ELSE jump_to_current_match(
             [e EXCEPT !.current_match =
                 IF @ = 0 THEN Len(e.search_matches) ELSE @ - 1])

\* EditorState::find_prev that stops at the first match
find_prev_stopping(e) ==
    IF e.search_matches = <<>> THEN e
    ELSE jump_to_current_match(
             [e EXCEPT !.current_match = IF @ = 0 THEN 0 ELSE @ - 1])

\* EditorState::find_prev
find_prev(e) ==
    IF e.search_matches = <<>> THEN e
    ELSE jump_to_current_match(
             [e EXCEPT !.current_match =
                 IF @ = 0 THEN Len(e.search_matches) - 1 ELSE @ - 1])

(***************************************************************************)
(* Undo / redo (mod.rs).                                                   *)
(***************************************************************************)
BufResult(e, r) == IF r.panic THEN Panic(e) ELSE SetBuf(e, r.buf)

\* one arm of EditorState::apply_undo_action, on the active buffer: [buf, panic]
undo_primitive(buf, action) ==
    LET n == Len(buf.lines)
        same == [buf |-> buf, panic |-> FALSE]
        ok(b) == [buf |-> b, panic |-> FALSE]
    IN CASE action.kind = "InsertChar" ->
              IF action.line < n
              THEN LET ln == buf.lines[action.line + 1]
                       col_b == byte_index_of_char(ln, action.col)
                   IN IF col_b < Len(ln)
                      THEN ok([buf EXCEPT
                               !.lines[action.line + 1] =
                                   Drain(ln, col_b, next_char_boundary(ln, col_b)),
                               !.cursor_y = action.line,
                               !.cursor_x = col_b,
                               !.modified = TRUE])
                      ELSE same
              ELSE same
         [] action.kind = "DeleteChar" ->
              IF action.line < n
              THEN LET ln == buf.lines[action.line + 1]
                       col_b == byte_index_of_char(ln, action.col)
                       new_ln == InsertAt(ln, col_b, action.ch)
                   IN ok([buf EXCEPT
                            !.lines[action.line + 1] = new_ln,
                            !.cursor_y = action.line,
                            !.cursor_x = Min(col_b + Len(action.ch), Len(new_ln)),
                            !.modified = TRUE])
              ELSE same
         [] action.kind = "InsertLine" ->
              IF action.line_num < n
              THEN ok([buf EXCEPT
                         !.lines = VecRemove(buf.lines, action.line_num),
                         !.cursor_y = Max(action.line_num - 1, 0),
                         !.cursor_x = 0,
                         !.modified = TRUE])
              ELSE same
         [] action.kind = "DeleteLine" ->
              IF action.line_num > n THEN [buf |-> buf, panic |-> TRUE]
              ELSE ok([buf EXCEPT
                         !.lines = VecInsert(buf.lines, action.line_num,
                                             action.content),
                         !.cursor_y = action.line_num,
                         !.cursor_x = 0,
                         !.modified = TRUE])
         [] action.kind = "ReplaceLine" ->
              IF action.line_num < n
              THEN ok([set_cursor_x_char_boundary([buf EXCEPT
                          !.lines[action.line_num + 1] = action.old,
                          !.cursor_y = action.line_num,
                          !.cursor_x = Min(buf.cursor_x, Len(action.old))])
                       EXCEPT !.modified = TRUE])
              ELSE same
         [] action.kind = "SplitLine" ->
              IF action.line + 1 < n
              THEN LET next_line == buf.lines[action.line + 2]
                       ln == buf.lines[action.line + 1]
                       col_b == byte_index_of_char(ln, action.col)
                       new_ln == Slice(ln, 0, col_b) \o trim_start(next_line)
                   IN ok([buf EXCEPT
                            !.lines = [VecRemove(buf.lines, action.line + 1)
                                          EXCEPT ![action.line + 1] = new_ln],
                            !.cursor_y = action.line,
                            !.cursor_x = Min(col_b, Len(new_ln)),
                            !.modified = TRUE])
              ELSE same
         [] action.kind = "JoinLines" ->
              IF action.line < n
              THEN LET ln == buf.lines[action.line + 1]
                       col_b == byte_index_of_char(ln, action.col)
                       tail == Slice(ln, col_b, Len(ln))
                   IN ok([buf EXCEPT
                            !.lines = VecInsert(
                                [buf.lines EXCEPT ![action.line + 1] =
                                                      Slice(ln, 0, col_b)],
                                action.line + 1, action.deleted_content \o tail),
                            !.cursor_y = action.line + 1,
                            !.cursor_x = 0,
                            !.modified = TRUE])
              ELSE same
         [] action.kind = "InsertText" ->
              undo_insert_text(buf, action.start_line, action.start_col, action.text)
         [] action.kind = "DeleteText" ->
              redo_insert_text(buf, action.start_line, action.start_col, action.text)

\* one arm of EditorState::apply_redo_action, on the active buffer: [buf, panic]
redo_primitive(buf, action) ==
    LET n == Len(buf.lines)
        same == [buf |-> buf, panic |-> FALSE]
        ok(b) == [buf |-> b, panic |-> FALSE]
    IN CASE action.kind = "InsertChar" ->
              IF action.line < n
              THEN LET ln == buf.lines[action.line + 1]
                       col_b == byte_index_of_char(ln, action.col)
                       new_ln == InsertAt(ln, col_b, action.ch)
                   IN ok([buf EXCEPT
                            !.lines[action.line + 1] = new_ln,
                            !.cursor_y = action.line,
                            !.cursor_x = Min(col_b + Len(action.ch), Len(new_ln)),
                            !.modified = TRUE])
              ELSE same
         [] action.kind = "DeleteChar" ->
              IF action.line < n
              THEN LET ln == buf.lines[action.line + 1]
                       col_b == byte_index_of_char(ln, action.col)
                   IN IF col_b < Len(ln)
                      THEN ok([buf EXCEPT
                               !.lines[action.line + 1] =
                                   Drain(ln, col_b, next_char_boundary(ln, col_b)),
                               !.cursor_y = action.line,
                               !.cursor_x = col_b,
                               !.modified = TRUE])
                      ELSE same
              ELSE same
         [] action.kind = "InsertLine" ->
              IF action.line_num > n THEN [buf |-> buf, panic |-> TRUE]
              ELSE ok([buf EXCEPT
                         !.lines = VecInsert(buf.lines, action.line_num,
                                             action.content),
                         !.cursor_y = action.line_num,
                         !.cursor_x = 0,
                         !.modified = TRUE])
         [] action.kind = "DeleteLine" ->
              IF action.line_num < n
              THEN ok([buf EXCEPT
                         !.lines = VecRemove(buf.lines, action.line_num),
                         !.cursor_y = Min(action.line_num, Max(n - 2, 0)),
                         !.cursor_x = 0,
                         !.modified = TRUE])
              ELSE same
         [] action.kind = "ReplaceLine" ->
              IF action.line_num < n
              THEN ok([set_cursor_x_char_boundary([buf EXCEPT
                          !.lines[action.line_num + 1] = action.new,
                          !.cursor_y = action.line_num,
                          !.cursor_x = Min(buf.cursor_x, Len(action.new))])
                       EXCEPT !.modified = TRUE])
              ELSE same
         [] action.kind = "SplitLine" ->
              IF action.line < n
              THEN LET ln == buf.lines[action.line + 1]
                       col_b == byte_index_of_char(ln, action.col)
                       remainder == Slice(ln, col_b, Len(ln))
                   IN ok([buf EXCEPT
                            !.lines = VecInsert(
                                [buf.lines EXCEPT ![action.line + 1] =
                                                      Slice(ln, 0, col_b)],
                                action.line + 1, remainder),
                            !.cursor_y = action.line + 1,
                            !.cursor_x = 0,
                            !.modified = TRUE])
              ELSE same
         [] action.kind = "JoinLines" ->
              IF action.line + 1 < n
              THEN LET joined == buf.lines[action.line + 1]
                                 \o buf.lines[action.line + 2]
                   IN ok([buf EXCEPT
                            !.lines = [VecRemove(buf.lines, action.line + 1)
                                          EXCEPT ![action.line + 1] = joined],
                            !.cursor_y = action.line,
                            !.cursor_x = Min(byte_index_of_char(joined, action.col),
                                             Len(joined)),
                            !.modified = TRUE])
              ELSE same
         [] action.kind = "InsertText" ->
              redo_insert_text(buf, action.start_line, action.start_col, action.text)
         [] action.kind = "DeleteText" ->
              undo_insert_text(buf, action.start_line, action.start_col, action.text)

\* EditorState::apply_undo_action undoing the members of a Batch first to
\* last
RECURSIVE apply_undo_action_forward(_, _)
apply_undo_action_forward(e, action) ==
    IF e.panic THEN e
    ELSE IF action.kind = "Batch"
    THEN IF action.actions = <<>> THEN e
         ELSE apply_undo_action_forward(
                  apply_undo_action_forward(e, Head(action.actions)),
                  Batch(Tail(action.actions)))
    ELSE BufResult(e, undo_primitive(Buf(e), action))

\* EditorState::apply_undo_action; a Batch undoes its members last to first
RECURSIVE apply_undo_action(_, _)
apply_undo_action(e, action) ==
    IF e.panic THEN e
    ELSE IF action.kind = "Batch"
    THEN IF action.actions = <<>> THEN e
         ELSE LET k == Len(action.actions)
              IN apply_undo_action(
                     apply_undo_action(e, action.actions[k]),
                     Batch(SubSeq(action.actions, 1, k - 1)))
    ELSE BufResult(e, undo_primitive(Buf(e), action))

\* EditorState::apply_redo_action; a Batch redoes its members first to last
RECURSIVE apply_redo_action(_, _)
apply_redo_action(e, action) ==
    IF e.panic THEN e
    ELSE IF action.kind = "Batch"
    THEN IF action.actions = <<>> THEN e
         ELSE apply_redo_action(
                  apply_redo_action(e, Head(action.actions)),
                  Batch(Tail(action.actions)))
    ELSE BufResult(e, redo_primitive(Buf(e), action))

\* EditorState::undo whose else branch also clears the search
undo_clearing_search(e) ==
    IF e.undo_stack = <<>> THEN Ret(clear_search(e), "false")
    ELSE LET action == e.undo_stack[Len(e.undo_stack)]
             popped == [e EXCEPT !.undo_stack = SubSeq(@, 1, Len(@) - 1)]
             applied == apply_undo_action(popped, action)
         IN IF applied.panic THEN Panic(e)
            ELSE Ret(push_redo(applied, action), "true")

\* EditorState::undo
undo(e) ==
    IF e.undo_stack = <<>> THEN Ret(e, "false")
    ELSE LET action == e.undo_stack[Len(e.undo_stack)]
             popped == [e EXCEPT !.undo_stack = SubSeq(@, 1, Len(@) - 1)]
             applied == apply_undo_action(popped, action)
         IN IF applied.panic THEN Panic(e)
            ELSE Ret(push_redo(applied, action), "true")

\* EditorState::redo without the push_back onto the undo history
redo_dropping_action(e) ==
    IF e.redo_stack = <<>> THEN Ret(e, "false")
    ELSE LET action == e.redo_stack[Len(e.redo_stack)]
             popped == [e EXCEPT !.redo_stack = SubSeq(@, 1, Len(@) - 1)]
             applied == apply_redo_action(popped, action)
         IN IF applied.panic THEN Panic(e)
            ELSE Ret(applied, "true")

\* EditorState::redo
redo(e) ==
    IF e.redo_stack = <<>> THEN Ret(e, "false")
    ELSE LET action == e.redo_stack[Len(e.redo_stack)]
             popped == [e EXCEPT !.redo_stack = SubSeq(@, 1, Len(@) - 1)]
             applied == apply_redo_action(popped, action)
         IN IF applied.panic THEN Panic(e)
            ELSE Ret(push_back_undo(applied, action), "true")

(***************************************************************************)
(* Buffer management and files (mod.rs, buffer.rs).                        *)
(***************************************************************************)
\* EditorState::next_buffer
next_buffer(e) ==
    IF Len(e.buffers) > 1
    THEN [e EXCEPT !.active_buffer = (@ + 1) % Len(e.buffers)]
    ELSE e

\* EditorState::prev_buffer
prev_buffer(e) ==
    IF Len(e.buffers) > 1
    THEN [e EXCEPT !.active_buffer = IF @ = 0 THEN Len(e.buffers) - 1 ELSE @ - 1]
    ELSE e

\* EditorState::close_buffer without the adjustment of active_buffer
close_buffer_keeping_index(e) ==
    IF Len(e.buffers) > 1
    THEN Ret([e EXCEPT !.buffers = VecRemove(e.buffers, e.active_buffer)], "true")
    ELSE Ret(e, "false")

\* EditorState::close_buffer
close_buffer(e) ==
    IF Len(e.buffers) > 1
    THEN LET bs == VecRemove(e.buffers, e.active_buffer)
         IN Ret([e EXCEPT !.buffers = bs,
                          !.active_buffer = IF @ >= Len(bs) THEN Len(bs) - 1 ELSE @],
                "true")
    ELSE Ret(e, "false")

\* The files of the environment: what fs::read_to_string gives for a path.
\* "p1" holds one line without a terminator, "p2" one line of a 2-byte
\* character with its terminator; "bad" cannot be read, "big" is over the
\* size cap, "bin" is not UTF-8 ("FF"), "nul" holds a NUL byte.
Paths == {"p1", "p2", "bad", "big", "bin", "nul"}
FileReadable(path) == path # "bad"
FileContent(path) ==
    IF path = "p1" THEN <<"a">>
    ELSE IF path = "p2" THEN <<"C3", "A9", LF>>
    ELSE IF path = "big" THEN <<"a">>
    ELSE IF path = "bin" THEN <<"a", "FF">>
    ELSE IF path = "nul" THEN <<"a", "NUL">>
    ELSE <<>>

\* the size cap of Buffer::from_file, 10 * 1024 * 1024 bytes
MaxFileSize == 10485760
\* metadata.len(): "big" stands for a file of more bytes than the model holds
FileSize(disk, path) ==
    IF path = "big" THEN MaxFileSize + 1 ELSE Len(disk[path])

\* whether fs::read_to_string accepts the bytes
valid_utf8(content) ==
    \A i \in 1..Len(content) :
        /\ content[i] # "FF"
        /\ content[i] = "C3" => (i < Len(content) /\ content[i + 1] \in ContBytes)
        /\ content[i] \in ContBytes => (i > 1 /\ content[i - 1] = "C3")

\* the Err returns of Buffer::from_file
from_file_fails(disk, path) ==
    \/ ~FileReadable(path)
    \/ FileSize(disk, path) > MaxFileSize
    \/ ~valid_utf8(disk[path])
    \/ \E i \in 1..Len(disk[path]) : disk[path][i] = "NUL"

\* Buffer::from_file for a readable text file
from_file(disk, path) ==
    LET content == disk[path]
        text == IF content = <<>> THEN <<LF>> ELSE content
    IN [text |-> text, lines |-> split_lf(text), cursor_x |-> 0, cursor_y |-> 0,
        scroll_offset |-> 0, file_path |-> path, modified |-> FALSE,
        selection_start |-> None, selection_end |-> None]

\* EditorState::open_file without the search for a buffer that already has
\* the path
open_file_not_looking(e, path) ==
    IF from_file_fails(e.disk, path) THEN Ret(e, "err")
    ELSE IF /\ Len(e.buffers) = 1
            /\ Len(Buf(e).lines) = 1
            /\ Buf(e).lines[1] = <<>>
            /\ Buf(e).file_path = NoPath
            /\ ~Buf(e).modified
    THEN Ret([e EXCEPT !.buffers[1] = from_file(e.disk, path)], "ok")
    ELSE Ret([e EXCEPT !.buffers = Append(@, from_file(e.disk, path)),
                       !.active_buffer = Len(e.buffers)], "ok")

\* EditorState::open_file pushing the buffer before the load is known to
\* have succeeded
open_file_pushing_first(e, path) ==
    LET open == {i \in 1..Len(e.buffers) : e.buffers[i].file_path = path}
    IN IF open # {}
       THEN Ret([e EXCEPT !.active_buffer = SetMin(open) - 1], "ok")
       ELSE IF from_file_fails(e.disk, path)
       THEN Ret([e EXCEPT !.buffers = Append(@, NewBuffer),
                          !.active_buffer = Len(e.buffers)], "err")
       ELSE IF /\ Len(e.buffers) = 1
               /\ Len(Buf(e).lines) = 1
               /\ Buf(e).lines[1] = <<>>
               /\ Buf(e).file_path = NoPath
               /\ ~Buf(e).modified
       THEN Ret([e EXCEPT !.buffers[1] = from_file(e.disk, path)], "ok")
       ELSE Ret([e EXCEPT !.buffers = Append(@, from_file(e.disk, path)),
                          !.active_buffer = Len(e.buffers)], "ok")

\* EditorState::open_file
open_file(e, path) ==
    LET open == {i \in 1..Len(e.buffers) : e.buffers[i].file_path = path}
    IN IF open # {}
       THEN Ret([e EXCEPT !.active_buffer = SetMin(open) - 1], "ok")
       ELSE IF from_file_fails(e.disk, path) THEN Ret(e, "err")
       ELSE IF /\ Len(e.buffers) = 1
               /\ Len(Buf(e).lines) = 1
               /\ Buf(e).lines[1] = <<>>
               /\ Buf(e).file_path = NoPath
               /\ ~Buf(e).modified
       THEN Ret([e EXCEPT !.buffers[1] = from_file(e.disk, path)], "ok")
       ELSE Ret([e EXCEPT !.buffers = Append(@, from_file(e.disk, path)),
                          !.active_buffer = Len(e.buffers)], "ok")

\* App::save_current_file: fs::write of get_content(), then set_modified(false)
save_current_file(e) ==
    LET path == Buf(e).file_path
    IN IF path # NoPath
       THEN Ret(SetBuf([e EXCEPT !.disk[path] = get_content(Buf(e))],
                       [Buf(e) EXCEPT !.modified = FALSE]), "ok")
       ELSE Ret(e, "ok")

(***************************************************************************)
(* Bracket matching (mod.rs).                                              *)
(***************************************************************************)
\* EditorState::get_matching_bracket_pos: None or <<line, byte_col>>.  The
\* two scans are its loop, taken from the top of the inner while with
\* current_line = l, current_col_char = c and depth = d.
get_matching_bracket_pos(e) ==
    LET buf == Buf(e)
        n == Len(buf.lines)
        char_at(l, c) == buf.lines[l + 1][byte_index_of_char(buf.lines[l + 1], c) + 1]
        RECURSIVE forward(_, _, _, _, _)
        forward(opening, closing, l, c, d) ==
            IF l >= n THEN None
            ELSE IF c >= chars_count(buf.lines[l + 1])
            THEN forward(opening, closing, l + 1, 0, d)
            ELSE IF char_at(l, c) = opening
            THEN forward(opening, closing, l, c + 1, d + 1)
            ELSE IF char_at(l, c) = closing
            THEN IF d - 1 = 0
                 THEN <<l, byte_index_of_char(buf.lines[l + 1], c)>>
                 ELSE forward(opening, closing, l, c + 1, d - 1)
            ELSE forward(opening, closing, l, c + 1, d)
        RECURSIVE backward(_, _, _, _, _)
        backward(opening, closing, l, c, d) ==
            IF c > 0
            THEN IF char_at(l, c - 1) = closing
                 THEN backward(opening, closing, l, c - 1, d + 1)
                 ELSE IF char_at(l, c - 1) = opening
                 THEN IF d - 1 = 0
                      THEN <<l, byte_index_of_char(buf.lines[l + 1], c - 1)>>
                      ELSE backward(opening, closing, l, c - 1, d - 1)
                 ELSE backward(opening, closing, l, c - 1, d)
            ELSE IF l = 0 THEN None
            ELSE IF l - 1 = 0 /\ chars_count(buf.lines[l]) = 0 THEN None
            ELSE backward(opening, closing, l - 1, chars_count(buf.lines[l]), d)
    IN IF buf.cursor_y >= n THEN None
       ELSE LET line == buf.lines[buf.cursor_y + 1]
                cursor_char_idx == char_index_at_byte(line, buf.cursor_x)
            IN IF buf.cursor_x >= Len(line) THEN None
               ELSE IF cursor_char_idx >= chars_count(line) THEN None
               ELSE LET ch == char_at(buf.cursor_y, cursor_char_idx)
                    IN IF ch = "(" THEN forward("(", ")", buf.cursor_y, cursor_char_idx, 0)
                       ELSE IF ch = ")" THEN backward("(", ")", buf.cursor_y, cursor_char_idx, 0)
                       ELSE IF ch = "[" THEN forward("[", "]", buf.cursor_y, cursor_char_idx, 0)
                       ELSE IF ch = "]" THEN backward("[", "]", buf.cursor_y, cursor_char_idx, 0)
                       ELSE IF ch = "{" THEN forward("{", "}", buf.cursor_y, cursor_char_idx, 0)
                       ELSE IF ch = "}" THEN backward("{", "}", buf.cursor_y, cursor_char_idx, 0)
                       ELSE None

\* EditorState::find_matching_bracket
find_matching_bracket(e) ==
    LET pos == get_matching_bracket_pos(e)
    IN IF pos # None
       THEN Ret(SetBuf(e, [Buf(e) EXCEPT !.cursor_y = pos[1], !.cursor_x = pos[2]]),
                "true")
       ELSE Ret(e, "false")

(***************************************************************************)
(* Autocomplete (app.rs, autocomplete.rs).                                 *)
(***************************************************************************)
\* the characters trigger_autocomplete takes for part of a word:
\* is_alphanumeric, '_', '.', '@'
WordByte(b) == b \notin {SP, LF, ":", "(", ")", "[", "]", "{", "}", "<", ">"}

\* the while loop of App::trigger_autocomplete: the character index at
\* which the word that ends at character index col_char starts
RECURSIVE word_start(_, _)
word_start(starts, col_char) ==
    IF col_char > 0 /\ col_char <= Len(starts) /\ WordByte(starts[col_char])
    THEN word_start(starts, col_char - 1)
    ELSE col_char

\* the first byte of every character of s, in order
RECURSIVE char_heads(_)
char_heads(s) ==
    IF s = <<>> THEN <<>>
    ELSE IF Head(s) \in ContBytes THEN char_heads(Tail(s))
    ELSE <<Head(s)>> \o char_heads(Tail(s))

\* App::trigger_autocomplete up to its call of AutocompleteState::show:
\* whether a prefix was found, trigger_pos.1 and the prefix
trigger_autocomplete(e) ==
    LET buf == Buf(e)
        current_line == buf.lines[buf.cursor_y + 1]
        col_byte == buf.cursor_x
        upto == Min(col_byte, Len(current_line))
        col_char == chars_count(Slice(current_line, 0, upto))
        start == word_start(char_heads(current_line), col_char)
        start_b == byte_index_of_char(current_line, start)
    IN IF col_byte = 0 \/ start = col_char
       THEN [some |-> FALSE, start |-> 0, prefix |-> <<>>]
       ELSE [some |-> TRUE, start |-> start,
             prefix |-> Slice(current_line, start_b, upto)]

\* the loops of App::accept_autocomplete
RECURSIVE backspaces(_, _)
backspaces(e, n) == IF n = 0 \/ e.panic THEN e ELSE backspaces(backspace(e), n - 1)

RECURSIVE insert_chars(_, _)
insert_chars(e, text) ==
    IF text = <<>> \/ e.panic THEN e
    ELSE LET n == CharLenAt(text, 0)
         IN insert_chars(insert_char(e, SubSeq(text, 1, n)),
                         SubSeq(text, n + 1, Len(text)))

\* App::accept_autocomplete with the selected suggestion's text
accept_autocomplete(e, trigger_col, text) ==
    LET current_col == Buf(e).cursor_x
        delete_count == Max(current_col - trigger_col, 0)
    IN insert_chars(backspaces(e, delete_count), text)

(***************************************************************************)
(* Word motions, character finds and jumps (mod.rs).  chars is the vector  *)
(* of the line's characters, here the first byte of each.                  *)
(***************************************************************************)
\* char::is_alphanumeric over the model's alphabet
is_alphanumeric(b) ==
    b \in {"a", "A", "C3", "p", "r", "o", "c", "d", "t", "m", "e", "q", "u"}

\* EditorState::move_word_forward
move_word_forward(e) ==
    LET buf == Buf(e)
    IN IF buf.cursor_y >= Len(buf.lines) THEN e
       ELSE LET line == buf.lines[buf.cursor_y + 1]
                chars == char_heads(line)
                RECURSIVE skip_word(_)
                skip_word(i) ==
                    IF i < Len(chars)
                       /\ (is_alphanumeric(chars[i + 1]) \/ chars[i + 1] = "_")
                    THEN skip_word(i + 1) ELSE i
                RECURSIVE skip_ws(_)
                skip_ws(i) ==
                    IF i < Len(chars) /\ chars[i + 1] \in Whitespace
                    THEN skip_ws(i + 1) ELSE i
                cursor_char_idx ==
                    skip_ws(skip_word(char_index_at_byte(line, buf.cursor_x)))
            IN SetBuf(e, [buf EXCEPT
                   !.cursor_x = byte_index_of_char(line, cursor_char_idx)])

\* EditorState::move_word_backward
move_word_backward(e) ==
    LET buf == Buf(e)
    IN IF buf.cursor_y >= Len(buf.lines) THEN e
       ELSE LET line == buf.lines[buf.cursor_y + 1]
                chars == char_heads(line)
                idx0 == char_index_at_byte(line, buf.cursor_x)
                RECURSIVE skip_ws(_)
                skip_ws(i) ==
                    IF i > 0 /\ chars[i + 1] \in Whitespace
                    THEN skip_ws(i - 1) ELSE i
                RECURSIVE skip_word(_)
                skip_word(i) ==
                    IF i > 0 /\ (is_alphanumeric(chars[i]) \/ chars[i] = "_")
                    THEN skip_word(i - 1) ELSE i
                cursor_char_idx ==
                    skip_word(skip_ws(IF idx0 > 0 THEN idx0 - 1 ELSE idx0))
            IN SetBuf(e, [buf EXCEPT
                   !.cursor_x = byte_index_of_char(line, cursor_char_idx)])

\* EditorState::move_word_end
move_word_end(e) ==
    LET buf == Buf(e)
    IN IF buf.cursor_y >= Len(buf.lines) THEN e
       ELSE LET line == buf.lines[buf.cursor_y + 1]
                chars == char_heads(line)
                idx0 == char_index_at_byte(line, buf.cursor_x)
                RECURSIVE skip_ws(_)
                skip_ws(i) ==
                    IF i < Len(chars) /\ chars[i + 1] \in Whitespace
                    THEN skip_ws(i + 1) ELSE i
                RECURSIVE skip_word(_)
                skip_word(i) ==
                    IF i + 1 < Len(chars)
                       /\ (is_alphanumeric(chars[i + 2]) \/ chars[i + 2] = "_")
                    THEN skip_word(i + 1) ELSE i
                cursor_char_idx ==
                    skip_word(skip_ws(IF idx0 + 1 < Len(chars) THEN idx0 + 1
                                      ELSE idx0))
            IN SetBuf(e, [buf EXCEPT
                   !.cursor_x = byte_index_of_char(line, cursor_char_idx)])

\* EditorState::move_to_first_non_blank
move_to_first_non_blank(e) ==
    LET buf == Buf(e)
    IN IF buf.cursor_y >= Len(buf.lines) THEN e
       ELSE LET line == buf.lines[buf.cursor_y + 1]
                non_blank == {i \in CharStarts(line) :
                                 line[i + 1] \notin Whitespace}
            IN SetBuf(e, [buf EXCEPT
                   !.cursor_x = IF non_blank = {} THEN 0
                                ELSE SetMin(non_blank)])

\* EditorState::find_char_forward; target is the character looked for
find_char_forward(e, target) ==
    LET buf == Buf(e)
    IN IF buf.cursor_y >= Len(buf.lines) THEN Ret(e, "false")
       ELSE LET line == buf.lines[buf.cursor_y + 1]
                chars == char_heads(line)
                cursor_char_idx == char_index_at_byte(line, buf.cursor_x)
                hits == {i \in (cursor_char_idx + 1)..(Len(chars) - 1) :
                            chars[i + 1] = target[1]}
            IN IF hits = {} THEN Ret(e, "false")
               ELSE Ret(SetBuf(e, [buf EXCEPT !.cursor_x =
                            byte_index_of_char(line, SetMin(hits))]), "true")

\* EditorState::find_char_backward
find_char_backward(e, target) ==
    LET buf == Buf(e)
    IN IF buf.cursor_y >= Len(buf.lines) THEN Ret(e, "false")
       ELSE LET line == buf.lines[buf.cursor_y + 1]
                chars == char_heads(line)
                cursor_char_idx == char_index_at_byte(line, buf.cursor_x)
                hits == {i \in 0..(cursor_char_idx - 1) :
                            chars[i + 1] = target[1]}
            IN IF hits = {} THEN Ret(e, "false")
               ELSE Ret(SetBuf(e, [buf EXCEPT !.cursor_x =
                            byte_index_of_char(line, SetMax(hits))]), "true")

\* EditorState::find_char_till_forward
find_char_till_forward(e, target) ==
    LET buf == Buf(e)
    IN IF buf.cursor_y >= Len(buf.lines) THEN Ret(e, "false")
       ELSE LET line == buf.lines[buf.cursor_y + 1]
                chars == char_heads(line)
                cursor_char_idx == char_index_at_byte(line, buf.cursor_x)
                hits == {i \in (cursor_char_idx + 1)..(Len(chars) - 1) :
                            chars[i + 1] = target[1]}
            IN IF hits = {} THEN Ret(e, "false")
               ELSE Ret(SetBuf(e, [buf EXCEPT !.cursor_x =
                            byte_index_of_char(line, Max(SetMin(hits) - 1, 0))]),
                        "true")

\* EditorState::find_char_till_backward
find_char_till_backward(e, target) ==
    LET buf == Buf(e)
    IN IF buf.cursor_y >= Len(buf.lines) THEN Ret(e, "false")
       ELSE LET line == buf.lines[buf.cursor_y + 1]
                chars == char_heads(line)
                cursor_char_idx == char_index_at_byte(line, buf.cursor_x)
                hits == {i \in 0..(cursor_char_idx - 1) :
                            chars[i + 1] = target[1]}
            IN IF hits = {} THEN Ret(e, "false")
               ELSE Ret(SetBuf(e, [buf EXCEPT !.cursor_x =
                            byte_index_of_char(
                                line,
                                Min(SetMax(hits) + 1, Len(chars) - 1))]),
                        "true")

\* EditorState::get_word_under_cursor: <<>> for None, <<word>> for Some(word);
\* '_', '@' and '?' are the other characters of a word
get_word_under_cursor(e) ==
    LET buf == Buf(e)
    IN IF buf.cursor_y >= Len(buf.lines) THEN None
       ELSE LET line == buf.lines[buf.cursor_y + 1]
                chars == char_heads(line)
                cursor_char_idx == char_index_at_byte(line, buf.cursor_x)
                word_char(b) == is_alphanumeric(b) \/ b \in {"_", "@", "?"}
                RECURSIVE back(_)
                back(i) ==
                    IF i > 0 /\ word_char(chars[i]) THEN back(i - 1) ELSE i
                RECURSIVE forth(_)
                forth(i) ==
                    IF i < Len(chars) /\ word_char(chars[i + 1])
                    THEN forth(i + 1) ELSE i
                start == back(cursor_char_idx)
                end == forth(cursor_char_idx)
            IN IF cursor_char_idx >= Len(chars) THEN None
               ELSE IF ~word_char(chars[cursor_char_idx + 1]) THEN None
               ELSE IF start < end
               THEN <<Slice(line, byte_index_of_char(line, start),
                            byte_index_of_char(line, end))>>
               ELSE None

\* EditorState::find_definition_in_buffer: <<>> for None, <<line, col>> for
\* Some((line, col)); the tab of " equ\t" is outside the model's alphabet
find_definition_in_buffer(e, symbol) ==
    LET buf == Buf(e)
        symbol_lower == to_lowercase(symbol)
        \* the column the loop body returns for one line, or -1
        col_in(line) ==
            LET trimmed == trim(line)
                trimmed_lower == to_lowercase(trimmed)
                colon_pos == find(trimmed, <<":">>)
                label_part == trim(Slice(trimmed, 0, Max(colon_pos, 0)))
                blanks == {i \in 0..(Len(trimmed) - 1) :
                              trimmed[i + 1] \in Whitespace}
                name == IF blanks = {} THEN trimmed
                        ELSE Slice(trimmed, 0, SetMin(blanks))
                named ==
                    \/ find(trimmed_lower, <<SP, "p", "r", "o", "c">>) >= 0
                    \/ find(trimmed_lower, <<SP, "m", "a", "c", "r", "o">>) >= 0
                    \/ find(trimmed_lower, <<SP, "e", "q", "u", SP>>) >= 0
            IN IF colon_pos >= 0 /\ to_lowercase(label_part) = symbol_lower
               THEN Max(find(line, label_part), 0)
               ELSE IF named /\ to_lowercase(name) = symbol_lower
               THEN Max(find(line, name), 0)
               ELSE -1
        found == {i \in 0..(Len(buf.lines) - 1) : col_in(buf.lines[i + 1]) >= 0}
    IN IF found = {} THEN None
       ELSE <<SetMin(found), col_in(buf.lines[SetMin(found) + 1])>>

\* EditorState::go_to_definition
go_to_definition(e) ==
    LET word == get_word_under_cursor(e)
        buf == Buf(e)
    IN IF word = None THEN Ret(e, "None")
       ELSE LET def == find_definition_in_buffer(e, word[1])
                with_jump == IF buf.file_path # NoPath
                          THEN [e EXCEPT !.jump_stack =
                                   Append(@, <<buf.file_path, buf.cursor_y,
                                               buf.cursor_x>>)]
                          ELSE e
            IN IF def = None THEN Ret(e, "None")
               ELSE Ret(SetBuf(with_jump, [buf EXCEPT !.cursor_y = def[1],
                                                   !.cursor_x = def[2]]),
                        "Some")

\* EditorState::go_back
go_back(e) ==
    IF e.jump_stack = <<>> THEN Ret(e, "false")
    ELSE LET top == e.jump_stack[Len(e.jump_stack)]
             popped == [e EXCEPT !.jump_stack = SubSeq(@, 1, Len(@) - 1)]
         IN IF Buf(e).file_path = top[1]
            THEN Ret(SetBuf(popped, [Buf(e) EXCEPT !.cursor_y = top[2],
                                                   !.cursor_x = top[3]]),
                     "true")
            ELSE Ret(popped, "false")

\* CursorOps::ensure_visible scrolling down to cursor_y - visible_height
ensure_visible_one_short(buf, visible_height) ==
    IF buf.cursor_y < buf.scroll_offset
    THEN [buf EXCEPT !.scroll_offset = buf.cursor_y]
    ELSE IF buf.cursor_y >= buf.scroll_offset + visible_height
    THEN [buf EXCEPT !.scroll_offset = buf.cursor_y - visible_height]
    ELSE buf

\* CursorOps::ensure_visible, as EditorState::ensure_cursor_visible calls it
ensure_visible(buf, visible_height) ==
    IF buf.cursor_y < buf.scroll_offset
    THEN [buf EXCEPT !.scroll_offset = buf.cursor_y]
    ELSE IF buf.cursor_y >= buf.scroll_offset + visible_height
    THEN [buf EXCEPT !.scroll_offset = buf.cursor_y - visible_height + 1]
    ELSE buf

(***************************************************************************)
(* The state machine.                                                      *)
(***************************************************************************)
VARIABLES
    buffers,          \* EditorState::buffers
    active_buffer,    \* EditorState::active_buffer
    auto_indent,      \* EditorState::auto_indent
    search_query,     \* EditorState::search_query
    search_matches,   \* EditorState::search_matches
    current_match,    \* EditorState::current_match
    undo_stack,       \* UndoStack::undo_stack
    redo_stack,       \* UndoStack::redo_stack
    max_size,         \* UndoStack::max_size
    clipboard,        \* Clipboard, with the system clipboard it talks to
    jump_stack,       \* EditorState::jump_stack
    disk,             \* the text files on disk, by path
    panicked,         \* the process has panicked
    last,             \* the last operation: name (one name for the word motions, one for
                      \* the character finds), return value, pushes, history sizes before
    hist,             \* the edit / undo / redo round trip in progress
    steps             \* operations still to be explored

vars == <<buffers, active_buffer, auto_indent, search_query, search_matches,
          current_match, undo_stack, redo_stack, max_size, clipboard,
          jump_stack, disk, panicked, last, hist, steps>>

\* UndoStack::default
DefaultMaxSize == 1000
\* config.rs: tab_size
TabSize == 4

\* characters typed, search queries, external clipboard texts, line numbers
Chars == {ChA, ChE, ChSp}
Queries == {ChA, ChE, ChA \o ChA}
ExternalTexts == {ChA, <<"a", LF, SP, "a">>}
LineNums == {1, 2}
\* texts of the suggestions AutocompleteState::show may offer
SuggestionTexts == {<<"a", "a", "a">>}

\* the editor value of the current state
ES ==
    [buffers |-> buffers, active_buffer |-> active_buffer,
     auto_indent |-> auto_indent, search_query |-> search_query,
     search_matches |-> search_matches, current_match |-> current_match,
     undo_stack |-> undo_stack, redo_stack |-> redo_stack,
     max_size |-> max_size, clipboard |-> clipboard,
     jump_stack |-> jump_stack, disk |-> disk,
     panic |-> FALSE, ret |-> "unit", pushed |-> 0]

\* lines and cursor of the active buffer
View(e) ==
    [lines |-> Buf(e).lines, cursor_y |-> Buf(e).cursor_y,
     cursor_x |-> Buf(e).cursor_x]
NoView == [lines |-> <<>>, cursor_y |-> 0, cursor_x |-> 0]
NoHist ==
    [phase |-> "none", op |-> "none", pre |-> NoView, post |-> NoView,
     sel |-> <<None, None>>, undo_post |-> <<>>, redo_post |-> <<>>]

\* edit (one action recorded, or an autocomplete acceptance), then undo,
\* then redo, with nothing in between
NextHist(e, op) ==
    IF \/ op \notin {"undo", "redo"} /\ e.pushed = 1
       \/ op = "accept_autocomplete" /\ e.pushed > 0
    THEN [phase |-> "edited", op |-> op, pre |-> View(ES), post |-> View(e),
          sel |-> <<Buf(ES).selection_start, Buf(ES).selection_end>>,
          undo_post |-> e.undo_stack, redo_post |-> e.redo_stack]
    ELSE IF op = "undo" /\ e.ret = "true" /\ hist.phase = "edited"
    THEN [hist EXCEPT !.phase = "undone"]
    ELSE IF op = "redo" /\ e.ret = "true" /\ hist.phase = "undone"
    THEN [hist EXCEPT !.phase = "redone"]
    ELSE NoHist

\* the state an operation leaves; a panic ends the process where it stood
Commit(e, op) ==
    /\ ~panicked
    /\ steps > 0
    /\ steps' = steps - 1
    /\ panicked' = e.panic
    /\ last' = [op |-> op, ret |-> e.ret, pushed |-> e.pushed,
                undo_before |-> Len(undo_stack),
                redo_before |-> Len(redo_stack)]
    /\ hist' = IF e.panic THEN NoHist ELSE NextHist(e, op)
    /\ buffers' = e.buffers
    /\ active_buffer' = e.active_buffer
    /\ auto_indent' = e.auto_indent
    /\ search_query' = e.search_query
    /\ search_matches' = e.search_matches
    /\ current_match' = e.current_match
    /\ undo_stack' = e.undo_stack
    /\ redo_stack' = e.redo_stack
    /\ max_size' = e.max_size
    /\ clipboard' = e.clipboard
    /\ jump_stack' = e.jump_stack
    /\ disk' = e.disk

\* EditorState::new, with UndoStack::new(cap) and Clipboard::new
InitWith(buf, cap, ops) ==
    /\ buffers = <<buf>>
    /\ active_buffer = 0
    /\ auto_indent = TRUE
    /\ search_query = <<>>
    /\ search_matches = <<>>
    /\ current_match = 0
    /\ undo_stack = <<>>
    /\ redo_stack = <<>>
    /\ max_size = cap
    /\ jump_stack = <<>>
    /\ \E ok \in BOOLEAN :
           clipboard = [system_ok |-> ok, system_text |-> <<>>,
                        yank_buffer |-> <<>>, yank_type |-> "Char"]
    /\ disk = [path \in Paths \cup ({buf.file_path} \ {NoPath}) |->
                   IF path = buf.file_path THEN buf.text ELSE FileContent(path)]
    /\ panicked = FALSE
    /\ last = [op |-> "new", ret |-> "unit", pushed |-> 0,
               undo_before |-> 0, redo_before |-> 0]
    /\ hist = NoHist
    /\ steps = ops

Init == InitWith(NewBuffer, DefaultMaxSize, MaxOps)

InsertCharAct == \E c \in Chars : Commit(insert_char(ES, c), "insert_char")
InsertNewlineAct == Commit(insert_newline(ES), "insert_newline")
InsertNewlineWithIndentAct ==
    \E ai \in BOOLEAN :
        Commit(insert_newline_with_indent(ES, ai), "insert_newline")
BackspaceAct == Commit(backspace(ES), "backspace")
DeleteCharAct == Commit(delete_char(ES), "delete_char")
DeleteLineAct == Commit(delete_line(ES), "delete_line")
InsertTabAct == Commit(insert_spaces(ES, TabSize), "insert_tab")
MoveCursorUpAct == Commit(SetBuf(ES, move_up(Buf(ES))), "move_cursor_up")
MoveCursorDownAct == Commit(SetBuf(ES, move_down(Buf(ES))), "move_cursor_down")
MoveCursorLeftAct == Commit(SetBuf(ES, move_left(Buf(ES))), "move_cursor_left")
MoveCursorRightAct == Commit(SetBuf(ES, move_right(Buf(ES))), "move_cursor_right")
MoveToLineStartAct == Commit(SetBuf(ES, move_to_line_start(Buf(ES))), "move_to_line_start")
MoveToLineEndAct == Commit(SetBuf(ES, move_to_line_end(Buf(ES))), "move_to_line_end")
GoToLineAct == \E n \in LineNums : Commit(go_to_line(ES, n), "go_to_line")
YankLineAct == Commit(yank_line(ES), "yank_line")
PasteAfterAct == Commit(paste_after(ES), "paste_after")
PasteBeforeAct == Commit(paste_before(ES), "paste_before")
StartSelectionAct == Commit(SetBuf(ES, start_selection(Buf(ES))), "start_selection")
UpdateSelectionAct == Commit(SetBuf(ES, update_selection(Buf(ES))), "update_selection")
ClearSelectionAct == Commit(SetBuf(ES, clear_selection(Buf(ES))), "clear_selection")
YankSelectionAct == Commit(yank_selection(ES), "yank_selection")
DeleteSelectionAct == Commit(delete_selection(ES), "delete_selection")
SearchAct == \E q \in Queries : Commit(search(ES, q), "search")
FindNextAct == Commit(find_next(ES), "find_next")
FindPrevAct == Commit(find_prev(ES), "find_prev")
ClearSearchAct == Commit(clear_search(ES), "clear_search")
UndoAct == Commit(undo(ES), "undo")
RedoAct == Commit(redo(ES), "redo")
NextBufferAct == Commit(next_buffer(ES), "next_buffer")
PrevBufferAct == Commit(prev_buffer(ES), "prev_buffer")
CloseBufferAct == Commit(close_buffer(ES), "close_buffer")
OpenFileAct == \E p \in Paths : Commit(open_file(ES, p), "open_file")

SaveCurrentFileAct == Commit(save_current_file(ES), "save_current_file")

FindMatchingBracketAct ==
    Commit(find_matching_bracket(ES), "find_matching_bracket")

\* Ctrl+Space opens the popup at the cursor, Tab accepts the selected
\* suggestion: one whose lower-cased text starts with the lower-cased prefix
AcceptAutocompleteAct ==
    \E text \in SuggestionTexts :
        LET t == trigger_autocomplete(ES)
        IN /\ ~panicked
           /\ Buf(ES).cursor_y < Len(Buf(ES).lines)
           /\ t.some
           /\ starts_with(to_lowercase(text), to_lowercase(t.prefix))
           /\ Commit(accept_autocomplete(ES, t.start, text),
                     "accept_autocomplete")

\* another process puts text on the system clipboard
ExternalCopyAct ==
    \E t \in ExternalTexts :
        /\ clipboard.system_ok
        /\ Commit([ES EXCEPT !.clipboard.system_text = t], "external_copy")

Next ==
    \/ InsertCharAct
    \/ InsertNewlineAct
    \/ InsertNewlineWithIndentAct
    \/ BackspaceAct
    \/ DeleteCharAct
    \/ DeleteLineAct
    \/ InsertTabAct
    \/ MoveCursorUpAct
    \/ MoveCursorDownAct
    \/ MoveCursorLeftAct
    \/ MoveCursorRightAct
    \/ MoveToLineStartAct
    \/ MoveToLineEndAct
    \/ GoToLineAct
    \/ YankLineAct
    \/ PasteAfterAct
    \/ PasteBeforeAct
    \/ StartSelectionAct
    \/ UpdateSelectionAct
    \/ ClearSelectionAct
    \/ YankSelectionAct
    \/ DeleteSelectionAct
    \/ SearchAct
    \/ FindNextAct
    \/ FindPrevAct
    \/ ClearSearchAct
    \/ UndoAct
    \/ RedoAct
    \/ NextBufferAct
    \/ PrevBufferAct
    \/ CloseBufferAct
    \/ OpenFileAct
    \/ AcceptAutocompleteAct
    \/ SaveCurrentFileAct
    \/ FindMatchingBracketAct
    \/ Commit(move_word_forward(ES), "word_motion")
    \/ Commit(move_word_backward(ES), "word_motion")
    \/ Commit(move_word_end(ES), "word_motion")
    \/ Commit(move_to_first_non_blank(ES), "word_motion")
    \/ Commit(find_char_forward(ES, ChA), "find_char")
    \/ Commit(find_char_backward(ES, ChA), "find_char")
    \/ Commit(find_char_till_forward(ES, ChA), "find_char")
    \/ Commit(find_char_till_backward(ES, ChA), "find_char")
    \/ Commit(go_to_definition(ES), "go_to_definition")
    \/ Commit(go_back(ES), "go_back")
    \* ensure_cursor_visible with a viewport smaller than the buffers explored
    \/ \E h \in {1} :
           Commit(SetBuf(ES, ensure_visible(Buf(ES), h)),
                  "ensure_cursor_visible")
    \/ ExternalCopyAct

Spec == Init /\ [][Next]_vars

\* EditorState::new over UndoStack::new(cap) for small caps
SpecCap ==
    /\ \E cap \in 0..MaxCap : InitWith(NewBuffer, cap, MaxCapOps)
    /\ [][Next]_vars

\* contents of the file a selection is made in
SelLines == {<<ChE \o ChA, ChA>>, <<ChA, ChE, ChA>>}

\* the positions of a buffer that lie on character boundaries
Positions(lines) ==
    {<<y, x>> \in (0..(Len(lines) - 1)) \X (0..3) :
        x <= Len(lines[y + 1]) /\ is_char_boundary(lines[y + 1], x)}

\* a file just opened, the cursor moved, and possibly a selection started
\* and extended to the cursor
SelBuffers ==
    {[text |-> join_lines(ls), lines |-> ls, cursor_x |-> c[2],
      cursor_y |-> c[1], scroll_offset |-> 0, file_path |-> "p3",
      modified |-> FALSE, selection_start |-> a,
      selection_end |-> IF a = None THEN None ELSE c] :
        <<ls, c, a>> \in {t \in SelLines \X ((0..2) \X (0..3))
                                        \X ({None} \cup ((0..2) \X (0..3))) :
                            /\ t[2] \in Positions(t[1])
                            /\ t[3] \in Positions(t[1]) \cup {None}}}

\* lines of assembly source: a label with an operand, a procedure header
\* and a section marker
SrcLines ==
    {<<(<<SP, "a", ":", SP, "a">>)>>,
     <<(<<"p", "r", "o", "c">>)>>,
     <<(<<".", "d", "a", "t", "a", SP, "a">>), ChA>>}

\* a source file just opened and the cursor moved somewhere in it
SrcBuffers ==
    {[text |-> join_lines(ls), lines |-> ls, cursor_x |-> x,
      cursor_y |-> y, scroll_offset |-> 0, file_path |-> "p3",
      modified |-> FALSE, selection_start |-> None, selection_end |-> None] :
        <<ls, y, x>> \in {t \in SrcLines \X (0..1) \X (0..7) :
                            /\ t[2] < Len(t[1])
                            /\ t[3] <= Len(t[1][t[2] + 1])}}

\* the editor with a source file open
SpecSrc ==
    /\ \E buf \in SrcBuffers : InitWith(buf, DefaultMaxSize, MaxSrcOps)
    /\ [][Next]_vars

\* the editor with a file of nested, multi-line and angle brackets open and
\* the cursor somewhere in it
SpecBr ==
    /\ \E ls \in {<<(<<"(", "C3", "A9", "(", ")", ")">>)>>,
                   <<(<<"{", "[", "a">>), <<"]", "}">>>>,
                   <<(<<"<", "a", ">", ")">>)>>} :
       \E y \in 0..(Len(ls) - 1) :
       \E x \in 0..Len(ls[y + 1]) :
           /\ is_char_boundary(ls[y + 1], x)
           /\ InitWith([text |-> join_lines(ls), lines |-> ls, cursor_x |-> x,
                        cursor_y |-> y, scroll_offset |-> 0, file_path |-> "p3",
                        modified |-> FALSE, selection_start |-> None,
                        selection_end |-> None],
                       DefaultMaxSize, MaxBrOps)
    /\ [][Next]_vars

\* the editor after a labelled line was typed into its first, path-less
\* buffer, one insert_char per character
TypedInit(ops) ==
    /\ \E text \in {<<"a", ":", SP, "a">>, <<"C3", "A9", ":", "C3", "A9">>} :
           LET \* EditorState::new
               new ==
                   [buffers |-> <<NewBuffer>>, active_buffer |-> 0,
                    auto_indent |-> TRUE, search_query |-> <<>>,
                    search_matches |-> <<>>, current_match |-> 0,
                    undo_stack |-> <<>>, redo_stack |-> <<>>,
                    max_size |-> DefaultMaxSize,
                    clipboard |-> [system_ok |-> TRUE, system_text |-> <<>>,
                                   yank_buffer |-> <<>>, yank_type |-> "Char"],
                    jump_stack |-> <<>>,
                    disk |-> [path \in Paths |-> FileContent(path)],
                    panic |-> FALSE, ret |-> "unit", pushed |-> 0]
               n == prev_char_boundary(text, Len(text))
               e0 == insert_chars(new, SubSeq(text, 1, n))
               e == insert_chars([e0 EXCEPT !.pushed = 0],
                                 SubSeq(text, n + 1, Len(text)))
           IN /\ buffers = e.buffers
              /\ active_buffer = e.active_buffer
              /\ auto_indent = e.auto_indent
              /\ search_query = e.search_query
              /\ search_matches = e.search_matches
              /\ current_match = e.current_match
              /\ undo_stack = e.undo_stack
              /\ redo_stack = e.redo_stack
              /\ max_size = e.max_size
              /\ clipboard = e.clipboard
              /\ jump_stack = e.jump_stack
              /\ disk = e.disk
              /\ panicked = FALSE
              /\ last = [op |-> "insert_char", ret |-> e.ret,
                         pushed |-> e.pushed,
                         undo_before |-> Len(e0.undo_stack),
                         redo_before |-> 0]
              /\ hist = [phase |-> "edited", op |-> "insert_char",
                         pre |-> View(e0), post |-> View(e),
                         sel |-> <<None, None>>,
                         undo_post |-> e.undo_stack,
                         redo_post |-> e.redo_stack]
              /\ steps = ops

\* navigation in a line just typed
SpecNav == TypedInit(MaxNavOps) /\ [][Next]_vars

\* the same start, explored one operation further
SpecTyped == TypedInit(MaxTypedOps) /\ [][Next]_vars

\* the editor with a file open and a selection made in it
SpecSel ==
    /\ \E buf \in SelBuffers : InitWith(buf, DefaultMaxSize, MaxSelOps)
    /\ [][Next]_vars

(***************************************************************************)
(* Properties of the editing engine.                                       *)
(***************************************************************************)
\* operations that record actions, as opposed to undo and redo
Recorded(l) == l.op \notin {"undo", "redo"} /\ l.pushed > 0

\* C1: while the editor runs, the active buffer's cursor_y indexes an
\* existing line, cursor_x is at most that line's byte length, and cursor_x
\* is on a UTF-8 character boundary of that line.
C1_CursorInBounds ==
    ~panicked =>
        LET buf == Buf(ES)
        IN /\ buf.cursor_y < Len(buf.lines)
           /\ buf.cursor_x <= Len(buf.lines[buf.cursor_y + 1])
           /\ is_char_boundary(buf.lines[buf.cursor_y + 1], buf.cursor_x)

\* C2: every open buffer holds at least one line.
C2_BuffersKeepALine ==
    \A i \in 1..Len(buffers) : Len(buffers[i].lines) >= 1

\* C3: no sequence of operations from EditorState::new panics.
C3_NeverPanics == ~panicked

\* C4: an operation that records one action, followed at once by undo(),
\* leaves the active buffer's lines and cursor as they were before it.
C4_UndoRestores ==
    (hist.phase = "undone" /\ hist.op # "accept_autocomplete")
        => View(ES) = hist.pre

\* C5: an operation that records one action, followed by undo() and then
\* redo(), leaves the active buffer's lines and cursor as they were right
\* after the operation.
C5_RedoReproduces ==
    (hist.phase = "redone" /\ hist.op # "accept_autocomplete")
        => View(ES) = hist.post

\* C11: an autocomplete acceptance records exactly one action, a Batch;
\* one undo() right after it restores the lines it found, and one redo()
\* after that gives the lines the acceptance left.
C11_AcceptIsOneBatch ==
    /\ (last.op = "accept_autocomplete" /\ ~panicked) =>
           /\ last.pushed = 1
           /\ undo_stack # <<>>
           /\ undo_stack[Len(undo_stack)].kind = "Batch"
    /\ (hist.op = "accept_autocomplete" /\ hist.phase = "undone") =>
           Buf(ES).lines = hist.pre.lines
    /\ (hist.op = "accept_autocomplete" /\ hist.phase = "redone") =>
           Buf(ES).lines = hist.post.lines

\* C12: delete_selection() over a selection whose anchors lie on different
\* lines, followed at once by undo(), leaves the lines as they were.
C12_MultiLineDeleteUndone ==
    (/\ hist.op = "delete_selection"
     /\ hist.phase = "undone"
     /\ redo_stack[Len(redo_stack)].start_line
            # redo_stack[Len(redo_stack)].end_line)
        => Buf(ES).lines = hist.pre.lines

\* C13: wherever the cursor is on a character boundary of its line,
\* insert_char(c) advances it by the byte length of c, and backspace()
\* right after gives back the line and the cursor position.
C13_InsertThenBackspace ==
    ~panicked =>
        \A c \in Chars :
            LET buf == Buf(ES)
                e1 == insert_char(ES, c)
                e2 == backspace(e1)
            IN (/\ buf.cursor_y < Len(buf.lines)
                /\ buf.cursor_x <= Len(buf.lines[buf.cursor_y + 1])
                /\ is_char_boundary(buf.lines[buf.cursor_y + 1], buf.cursor_x))
               => /\ ~e1.panic /\ ~e2.panic
                  /\ Buf(e1).cursor_y = buf.cursor_y
                  /\ Buf(e1).cursor_x = buf.cursor_x + Len(c)
                  /\ View(e2) = View(ES)

\* C13 witness: a two-byte character typed in the middle of a line's
\* characters and removed again by backspace()
C13_Witness ==
    /\ last.op = "backspace" /\ ~panicked
    /\ Len(undo_stack) >= 2
    /\ LET ins == undo_stack[Len(undo_stack) - 1]
           del == undo_stack[Len(undo_stack)]
       IN /\ ins.kind = "InsertChar" /\ del.kind = "DeleteChar"
          /\ ins.ch = ChE /\ del.ch = ChE
          /\ ins.line = del.line /\ ins.col = del.col
    /\ Buf(ES).lines[Buf(ES).cursor_y + 1] # <<>>

\* the query occurs, case-insensitively, at match m = <<line, col>> of lines
match_occurs(lines, query, m) ==
    /\ m[1] < Len(lines)
    /\ m[2] + Len(query) <= Len(lines[m[1] + 1])
    /\ Slice(to_lowercase(lines[m[1] + 1]), m[2], m[2] + Len(query))
           = to_lowercase(query)

\* C14: a step of a content-changing operation that changes the active
\* buffer's lines leaves every stored match at a position of the active
\* buffer where the query occurs.
C14_MatchesNeverStale ==
    [][(/\ last'.op \in {"insert_char", "insert_newline", "backspace",
                       "delete_char", "delete_line", "paste_before",
                       "paste_after", "delete_selection", "undo", "redo"}
        /\ ~panicked'
        /\ active_buffer' = active_buffer
        /\ buffers'[active_buffer + 1].lines # buffers[active_buffer + 1].lines)
       => \A i \in 1..Len(search_matches') :
              match_occurs(buffers'[active_buffer + 1].lines, search_query',
                           search_matches'[i])]_vars

\* find_next called n times
RECURSIVE find_next_n(_, _)
find_next_n(e, n) == IF n = 0 THEN e ELSE find_next_n(find_next(e), n - 1)

\* the positions of lines at which the query occurs
Occurrences(lines, query) ==
    UNION {{<<y, x>> : x \in {c \in 0..Len(lines[y + 1]) :
                                  match_occurs(lines, query, <<y, c>>)}} :
           y \in 0..(Len(lines) - 1)}

\* C15: right after search(query) for a query that occurs k >= 1 times in
\* the active buffer, the stored matches are exactly the k occurrences,
\* top to bottom then left to right, the first one is current, and k + 1
\* calls of find_next end on the first match with the cursor on it.
C15_SearchFindsAll ==
    LET occ == Occurrences(Buf(ES).lines, search_query)
        k == Cardinality(occ)
        after == find_next_n(ES, k + 1)
    IN (last.op = "search" /\ search_query # <<>> /\ k >= 1) =>
          /\ ~panicked
          /\ Len(search_matches) = k
          /\ {search_matches[i] : i \in 1..k} = occ
          /\ \A i \in 1..(k - 1) :
                 LET m == search_matches[i]
                     n == search_matches[i + 1]
                 IN m[1] < n[1] \/ (m[1] = n[1] /\ m[2] < n[2])
          /\ current_match = 0
          /\ after.current_match = 0
          /\ <<Buf(after).cursor_y, Buf(after).cursor_x>> = search_matches[1]

\* C16: with k >= 1 matches find_next makes match (i + 1) mod k current and
\* find_prev match (i - 1) mod k, and each puts the cursor on the current
\* match; either one followed by the other, and k calls of find_next, come
\* back to the same match.  With no matches both change nothing.
C16_FindWrapsAround ==
    [][LET k == Len(search_matches)
           i == current_match
           cur == Buf(ES)'
       IN (last'.op \in {"find_next", "find_prev"}) =>
             /\ ~panicked'
             /\ UNCHANGED <<search_query, search_matches, active_buffer,
                            undo_stack, redo_stack, clipboard>>
             /\ k = 0 => UNCHANGED <<buffers, current_match>>
             /\ k >= 1 =>
                   /\ last'.op = "find_next" => current_match' = (i + 1) % k
                   /\ last'.op = "find_prev" => current_match' = (i + k - 1) % k
                   /\ <<cur.cursor_y, cur.cursor_x>>
                          = search_matches[current_match' + 1]
                   /\ buffers' = [buffers EXCEPT ![active_buffer + 1] = cur]
                   /\ cur = [Buf(ES) EXCEPT !.cursor_y = cur.cursor_y,
                                            !.cursor_x = cur.cursor_x]
                   /\ find_prev(find_next(ES)).current_match = i
                   /\ find_next(find_prev(ES)).current_match = i
                   /\ View(find_prev(find_next(ES')))= View(ES')
                   /\ View(find_next(find_prev(ES'))) = View(ES')
                   /\ find_next_n(ES, k).current_match = i
                   /\ View(find_next_n(ES', k)) = View(ES')]_vars

\* C16 witness: find_prev wraps from the first of several matches to the last
C16_Witness ==
    /\ last.op = "find_prev" /\ ~panicked
    /\ Len(search_matches) >= 2
    /\ current_match = Len(search_matches) - 1
    /\ <<Buf(ES).cursor_y, Buf(ES).cursor_x>> = search_matches[current_match + 1]

\* C17: saving a buffer that was loaded from a file whose lines all end
\* in LF, and whose lines are again what was loaded, writes the content
\* the file had.
C17_SaveRoundTrip ==
    LET path == Buf(ES).file_path
    IN (/\ last.op = "save_current_file" /\ ~panicked
        /\ path \in Paths
        /\ FileContent(path) # <<>>
        /\ FileContent(path)[Len(FileContent(path))] = LF
        /\ Buf(ES).lines = split_lf(FileContent(path)))
       => disk[path] = FileContent(path)

\* C18: a character-wise paste of t at a cursor (y, x) that is on a
\* character boundary of line y puts t between the two parts of the line,
\* whether t has one line or several, and leaves the cursor after the last
\* pasted character.
C18_InlinePasteLosesNothing ==
    ~panicked =>
        \A t \in ExternalTexts :
            LET buf == Buf(ES)
                y == buf.cursor_y
                x == buf.cursor_x
                line == buf.lines[y + 1]
                segs == split_lf(t)
                n == Len(segs)
                whole == split_lf(Slice(line, 0, x) \o t \o Slice(line, x, Len(line)))
                e1 == paste_text_inline(ES, t)
            IN (/\ y < Len(buf.lines)
                /\ x <= Len(line)
                /\ is_char_boundary(line, x))
               => /\ ~e1.panic
                  /\ Buf(e1).lines = SubSeq(buf.lines, 1, y) \o whole
                                      \o SubSeq(buf.lines, y + 2, Len(buf.lines))
                  /\ Buf(e1).cursor_y = y + n - 1
                  /\ Buf(e1).cursor_x = (IF n = 1 THEN x ELSE 0) + Len(segs[n])

\* C19: a paste records at most one action, and exactly one when it
\* happened; one undo() right after the paste gives back the lines the
\* paste found, and one redo() after that gives the lines the paste left.
C19_PasteIsOneAction ==
    /\ last.op \in {"paste_after", "paste_before"} => last.pushed <= 1
    /\ (hist.op \in {"paste_after", "paste_before"} /\ hist.phase = "undone")
           => Buf(ES).lines = hist.pre.lines
    /\ (hist.op \in {"paste_after", "paste_before"} /\ hist.phase = "redone")
           => Buf(ES).lines = hist.post.lines

\* C20: delete_selection() with a selection whose two ends are positions
\* of the buffer, (sl, sc) before (el, ec), leaves the one line
\* prefix(lines[sl], sc) + suffix(lines[el], ec) in place of lines sl..el,
\* the cursor at (sl, sc), the extracted text in the yank buffer as a
\* character-wise yank, one DeleteText carrying that text on the undo
\* history, no selection, and returns true; with no selection it returns
\* false and changes nothing.
C20_DeleteSelection ==
    ~panicked =>
        LET buf == Buf(ES)
            a == buf.selection_start
            b == buf.selection_end
            e1 == delete_selection(ES)
            inside(p) == /\ p[1] < Len(buf.lines)
                         /\ p[2] <= Len(buf.lines[p[1] + 1])
                         /\ is_char_boundary(buf.lines[p[1] + 1], p[2])
        IN IF a = None \/ b = None
           THEN e1 = Ret(ES, "false")
           ELSE (inside(a) /\ inside(b)) =>
                LET fwd == a[1] < b[1] \/ (a[1] = b[1] /\ a[2] <= b[2])
                    sl == IF fwd THEN a[1] ELSE b[1]
                    sc == IF fwd THEN a[2] ELSE b[2]
                    el == IF fwd THEN b[1] ELSE a[1]
                    ec == IF fwd THEN b[2] ELSE a[2]
                    first == buf.lines[sl + 1]
                    final == buf.lines[el + 1]
                    text == IF sl = el THEN Slice(first, sc, ec)
                            ELSE join_lines(<<Slice(first, sc, Len(first))>>
                                            \o SubSeq(buf.lines, sl + 2, el)
                                            \o <<Slice(final, 0, ec)>>)
                    top == e1.undo_stack[Len(e1.undo_stack)]
                IN /\ ~e1.panic
                   /\ e1.ret = "true"
                   /\ Buf(e1).lines =
                          SubSeq(buf.lines, 1, sl)
                          \o <<Slice(first, 0, sc) \o Slice(final, ec, Len(final))>>
                          \o SubSeq(buf.lines, el + 2, Len(buf.lines))
                   /\ Len(Buf(e1).lines) = Len(buf.lines) - (el - sl)
                   /\ <<Buf(e1).cursor_y, Buf(e1).cursor_x>> = <<sl, sc>>
                   /\ e1.clipboard.yank_buffer = text
                   /\ e1.clipboard.yank_type = "Char"
                   /\ e1.pushed = ES.pushed + 1
                   /\ e1.undo_stack = Append(undo_stack, top)
                   /\ top.kind = "DeleteText" /\ top.text = text
                   /\ Buf(e1).selection_start = None
                   /\ Buf(e1).selection_end = None

\* a selection over a line break and a two-byte character was deleted
C20_Witness ==
    /\ last.op = "delete_selection" /\ last.ret = "true" /\ ~panicked
    /\ hist.phase = "edited"
    /\ Len(hist.post.lines) < Len(hist.pre.lines)
    /\ undo_stack[Len(undo_stack)].kind = "DeleteText"
    /\ \E i \in 1..Len(clipboard.yank_buffer) : clipboard.yank_buffer[i] = "C3"
    /\ \E i \in 1..Len(clipboard.yank_buffer) : clipboard.yank_buffer[i] = LF
    /\ Buf(ES).selection_start = None

\* C21: undo() right after a delete_selection() gives back the lines and
\* the two selection anchors that were there when the text was deleted.
C21_UndoRestoresSelection ==
    (/\ hist.op = "delete_selection" /\ hist.phase = "undone" /\ ~panicked
     /\ hist.sel[1] # hist.sel[2])
        => /\ Buf(ES).lines = hist.pre.lines
           /\ <<Buf(ES).selection_start, Buf(ES).selection_end>> = hist.sel

\* C22: the editor always owns a buffer and active_buffer names one of
\* them; close_buffer() refuses to close the only buffer and changes
\* nothing, and otherwise removes the active buffer alone, keeping the
\* others in their order, and returns true.
C22_BuffersAndClose ==
    /\ Len(buffers) >= 1
    /\ active_buffer < Len(buffers)
    /\ LET e1 == close_buffer(ES)
           n == Len(buffers)
       IN IF n = 1
          THEN e1 = Ret(ES, "false")
          ELSE /\ e1.ret = "true"
               /\ e1.buffers = [i \in 1..(n - 1) |->
                                   IF i <= active_buffer THEN buffers[i]
                                   ELSE buffers[i + 1]]
               /\ e1.active_buffer < Len(e1.buffers)
               /\ e1.undo_stack = undo_stack /\ e1.redo_stack = redo_stack
               /\ e1.clipboard = clipboard /\ e1.disk = disk

\* the last of three buffers was closed while it was the active one
C22_Witness ==
    /\ last.op = "close_buffer" /\ last.ret = "true"
    /\ Len(buffers) = 2
    /\ active_buffer = 1
    /\ buffers[1].file_path # buffers[2].file_path

\* C23: open_file of a file that is over the size cap, not UTF-8, holds
\* a NUL byte or cannot be read returns an error, and an open_file that
\* returns an error leaves the buffers, the active buffer, both histories
\* and everything else as they were.
C23_FailedOpenChangesNothing ==
    \A p \in Paths :
        LET e1 == open_file(ES, p)
        IN /\ p \in {"bad", "big", "bin", "nul"} => e1.ret = "err"
           /\ e1.ret = "err" =>
                 /\ e1.buffers = buffers
                 /\ e1.active_buffer = active_buffer
                 /\ e1.undo_stack = undo_stack
                 /\ e1.redo_stack = redo_stack
                 /\ e1 = Ret(ES, "err")

\* an open_file failed with two buffers open and both histories in use
C23_Witness ==
    /\ last.op = "open_file" /\ last.ret = "err"
    /\ Len(buffers) = 2
    /\ undo_stack # <<>>

C25_PasteDecidesType ==
    LET cb == clipboard
        p == paste(ES)
    IN /\ (cb.system_ok /\ cb.system_text # <<>> /\ cb.system_text = cb.yank_buffer)
            => p = [some |-> TRUE, text |-> cb.system_text,
                    yank_type |-> cb.yank_type]
       /\ (cb.system_ok /\ cb.system_text # <<>> /\ cb.system_text # cb.yank_buffer)
            => p = [some |-> TRUE, text |-> cb.system_text, yank_type |-> "Char"]
       /\ (~cb.system_ok /\ cb.yank_buffer # <<>>)
            => p = [some |-> TRUE, text |-> cb.yank_buffer,
                    yank_type |-> cb.yank_type]
       /\ \A t \in ExternalTexts \cup {<<LF>>}, ty \in {"Line", "Char"} :
              LET e1 == copy(ES, t, ty)
              IN /\ e1.clipboard.yank_buffer = t
                 /\ e1.clipboard.yank_type = ty
                 /\ paste(e1) = [some |-> TRUE, text |-> t, yank_type |-> ty]
       /\ (last.op = "yank_line" /\ Buf(ES).cursor_y < Len(Buf(ES).lines))
            => p = [some |-> TRUE, yank_type |-> "Line",
                    text |-> Buf(ES).lines[Buf(ES).cursor_y + 1] \o <<LF>>]

\* a line was yanked into a reachable system clipboard that held other text
C25_Witness ==
    /\ last.op = "yank_line"
    /\ clipboard.system_ok
    /\ clipboard.yank_type = "Line"
    /\ clipboard.system_text = clipboard.yank_buffer
    /\ Len(clipboard.yank_buffer) > 1

\* C26, amended: delete_line() at a cursor on an existing line leaves [""]
\* and the cursor at (0,0) on a one-line buffer and removes the cursor line
\* otherwise, and yanks the removed text with a newline, line-wise; it
\* records one action that undo() inverts (ReplaceLine for a single line,
\* DeleteLine otherwise), except that deleting a single line that is
\* already empty records nothing.
C26_DeleteLine ==
    LET buf == Buf(ES)
        n == Len(buf.lines)
        y == buf.cursor_y
        c == buf.lines[y + 1]
        e1 == delete_line(ES)
        e2 == undo(e1)
        top == e1.undo_stack[Len(e1.undo_stack)]
        recorded == /\ e1.pushed = ES.pushed + 1
                    /\ e1.undo_stack = Append(undo_stack, top)
                    /\ top.kind = (IF n = 1 THEN "ReplaceLine" ELSE "DeleteLine")
                    /\ ~e2.panic /\ e2.ret = "true"
                    /\ Buf(e2).lines = buf.lines
    IN (~panicked /\ y < n) =>
          /\ ~e1.panic
          /\ IF n = 1
             THEN /\ Buf(e1).lines = <<<<>>>>
                  /\ <<Buf(e1).cursor_y, Buf(e1).cursor_x>> = <<0, 0>>
             ELSE /\ Buf(e1).lines = [i \in 1..(n - 1) |->
                                         IF i <= y THEN buf.lines[i]
                                         ELSE buf.lines[i + 1]]
                  /\ Buf(e1).cursor_y = Min(y, n - 2)
                  /\ Buf(e1).cursor_x <= Len(Buf(e1).lines[Buf(e1).cursor_y + 1])
          /\ e1.clipboard.yank_buffer = c \o <<LF>>
          /\ e1.clipboard.yank_type = "Line"
          /\ IF n > 1 \/ c # <<>>
             THEN recorded
             ELSE e1.undo_stack = undo_stack /\ e1.pushed = ES.pushed

\* C26 as stated: the same, with an action recorded in both cases, the
\* single empty line included.
C26_DeleteLineAlwaysRecords ==
    LET buf == Buf(ES)
        n == Len(buf.lines)
        y == buf.cursor_y
        c == buf.lines[y + 1]
        e1 == delete_line(ES)
        e2 == undo(e1)
        top == e1.undo_stack[Len(e1.undo_stack)]
        recorded == /\ e1.pushed = ES.pushed + 1
                    /\ e1.undo_stack = Append(undo_stack, top)
                    /\ top.kind = (IF n = 1 THEN "ReplaceLine" ELSE "DeleteLine")
                    /\ ~e2.panic /\ e2.ret = "true"
                    /\ Buf(e2).lines = buf.lines
    IN (~panicked /\ y < n) =>
          /\ ~e1.panic
          /\ IF n = 1
             THEN /\ Buf(e1).lines = <<<<>>>>
                  /\ <<Buf(e1).cursor_y, Buf(e1).cursor_x>> = <<0, 0>>
             ELSE /\ Buf(e1).lines = [i \in 1..(n - 1) |->
                                         IF i <= y THEN buf.lines[i]
                                         ELSE buf.lines[i + 1]]
                  /\ Buf(e1).cursor_y = Min(y, n - 2)
                  /\ Buf(e1).cursor_x <= Len(Buf(e1).lines[Buf(e1).cursor_y + 1])
          /\ e1.clipboard.yank_buffer = c \o <<LF>>
          /\ e1.clipboard.yank_type = "Line"
          /\ recorded

\* a line of a two-line buffer and then the only line left were deleted
C26_Witness ==
    /\ last.op = "delete_line" /\ last.pushed = 1 /\ ~panicked
    /\ Len(undo_stack) >= 2
    /\ undo_stack[Len(undo_stack)].kind = "ReplaceLine"
    /\ undo_stack[Len(undo_stack) - 1].kind = "DeleteLine"
    /\ Buf(ES).lines = <<<<>>>>
    /\ clipboard.yank_type = "Line"

\* C27 as stated: insert_newline with auto_indent at a cursor (y, x) keeps
\* the part before x on line y and gives the new line the leading
\* whitespace of the line as it was before the split, with four more spaces
\* exactly when that line, trimmed, ends with a label colon, PROC, MACRO or
\* a section marker; the cursor lands on the new line after the indentation.
C27_IndentFromWholeLine ==
    LET buf == Buf(ES)
        y == buf.cursor_y
        x == buf.cursor_x
        line == buf.lines[y + 1]
        trimmed == to_lowercase(trim(line))
        opens == \E tok \in {<<":">>, <<"p", "r", "o", "c">>,
                              <<"m", "a", "c", "r", "o">>,
                              <<".", "d", "a", "t", "a">>,
                              <<".", "c", "o", "d", "e">>} :
                     ends_with(trimmed, tok)
        indent == leading_ws(line) \o (IF opens THEN <<SP, SP, SP, SP>> ELSE <<>>)
        e1 == insert_newline_with_indent(ES, TRUE)
    IN (~panicked /\ y < Len(buf.lines) /\ x <= Len(line)) =>
          /\ Len(Buf(e1).lines) = Len(buf.lines) + 1
          /\ Buf(e1).lines[y + 1] = Slice(line, 0, x)
          /\ Buf(e1).lines[y + 2] = indent \o Slice(line, x, Len(line))
          /\ <<Buf(e1).cursor_y, Buf(e1).cursor_x>> = <<y + 1, Len(indent)>>

\* C27, amended: the indentation is taken from the part of the line before
\* the cursor: its leading whitespace, with four more spaces exactly when
\* that part, trimmed and in lower case, ends with ":", "proc" or "macro"
\* or starts with ".data" or ".code"; the new line is the indentation
\* followed by the part after the cursor, and the cursor lands on the new
\* line after the indentation.
C27_IndentFromPrefix ==
    LET buf == Buf(ES)
        y == buf.cursor_y
        x == buf.cursor_x
        line == buf.lines[y + 1]
        kept == Slice(line, 0, x)
        trimmed == to_lowercase(trim(kept))
        opens == \/ \E tok \in {<<":">>, <<"p", "r", "o", "c">>,
                                 <<"m", "a", "c", "r", "o">>} :
                        ends_with(trimmed, tok)
                 \/ \E tok \in {<<".", "d", "a", "t", "a">>,
                                 <<".", "c", "o", "d", "e">>} :
                        starts_with(trimmed, tok)
        indent == leading_ws(kept) \o (IF opens THEN <<SP, SP, SP, SP>> ELSE <<>>)
        e1 == insert_newline_with_indent(ES, TRUE)
    IN (~panicked /\ y < Len(buf.lines) /\ x <= Len(line)
        /\ is_char_boundary(line, x)) =>
          /\ Len(Buf(e1).lines) = Len(buf.lines) + 1
          /\ Buf(e1).lines[y + 1] = kept
          /\ Buf(e1).lines[y + 2] = indent \o Slice(line, x, Len(line))
          /\ <<Buf(e1).cursor_y, Buf(e1).cursor_x>> = <<y + 1, Len(indent)>>

\* the label line " a: a" was split right after its colon
C27_Witness ==
    /\ last.op = "insert_newline" /\ last.pushed = 1 /\ ~panicked
    /\ Len(Buf(ES).lines) >= 2
    /\ Buf(ES).lines[1] = <<SP, "a", ":">>
    /\ Buf(ES).lines[2] = <<SP, SP, SP, SP, SP, SP, "a">>
    /\ <<Buf(ES).cursor_y, Buf(ES).cursor_x>> = <<1, 5>>

\* C28: backspace() at column 0 of a line y > 0 and delete_char() at the
\* end of a line that has a next line both put the two lines together as
\* one, leave the cursor at the join point (the upper line, at its old byte
\* length) and record one JoinLines that undo() inverts; backspace() at
\* (0,0) and delete_char() at the end of the last line change no line and
\* record nothing.
C28_JoinsMirror ==
    LET buf == Buf(ES)
        n == Len(buf.lines)
        y == buf.cursor_y
        x == buf.cursor_x
        joined(u) == [i \in 1..(n - 1) |->
                         IF i < u + 1 THEN buf.lines[i]
                         ELSE IF i = u + 1 THEN buf.lines[i] \o buf.lines[i + 1]
                         ELSE buf.lines[i + 1]]
        joins(e1, u) ==
            LET top == e1.undo_stack[Len(e1.undo_stack)]
                e2 == undo(e1)
            IN /\ ~e1.panic
               /\ Buf(e1).lines = joined(u)
               /\ <<Buf(e1).cursor_y, Buf(e1).cursor_x>> = <<u, Len(buf.lines[u + 1])>>
               /\ e1.pushed = ES.pushed + 1
               /\ e1.undo_stack = Append(undo_stack, top)
               /\ top.kind = "JoinLines"
               /\ ~e2.panic /\ e2.ret = "true"
               /\ Buf(e2).lines = buf.lines
        nothing(e1) ==
            /\ ~e1.panic
            /\ Buf(e1).lines = buf.lines
            /\ e1.undo_stack = undo_stack
            /\ e1.pushed = ES.pushed
    IN (~panicked /\ y < n) =>
          /\ (x = 0 /\ y > 0) => joins(backspace(ES), y - 1)
          /\ (x = Len(buf.lines[y + 1]) /\ y + 1 < n) => joins(delete_char(ES), y)
          /\ (x = 0 /\ y = 0) => nothing(backspace(ES))
          /\ (x = Len(buf.lines[y + 1]) /\ y + 1 = n) => nothing(delete_char(ES))

\* C29: in every buffer the two selection anchors are both present or
\* both absent.
C29_AnchorsComeInPairs ==
    \A i \in 1..Len(buffers) :
        (buffers[i].selection_start = None) <=> (buffers[i].selection_end = None)

\* a selection was started and then extended to another cursor position
C29_Witness ==
    /\ last.op = "update_selection"
    /\ Buf(ES).selection_start # None
    /\ Buf(ES).selection_end # None
    /\ Buf(ES).selection_start # Buf(ES).selection_end

\* C30: find_matching_bracket() with the cursor on a delimiter of (), [],
\* {} or <> that has a partner (the nearest position, after an opening or
\* before a closing delimiter, up to which openings and closings of the
\* pair balance) moves the cursor there and returns true, and called again
\* brings the cursor back; otherwise it returns false and changes nothing.
C30_BracketRoundTrip ==
    LET buf == Buf(ES)
        n == Len(buf.lines)
        P == {p \in (0..(n - 1)) \X (0..8) : p[2] < Len(buf.lines[p[1] + 1])}
        at(p) == buf.lines[p[1] + 1][p[2] + 1]
        before(p, q) == p[1] < q[1] \/ (p[1] = q[1] /\ p[2] < q[2])
        between(p, q) == {r \in P : ~before(r, p) /\ ~before(q, r)}
        here == <<buf.cursor_y, buf.cursor_x>>
        pairs == {<<"(", ")">>, <<"[", "]">>, <<"{", "}">>, <<"<", ">">>}
        balanced(pr, p, q) ==
            Cardinality({r \in between(p, q) : at(r) = pr[1]})
                = Cardinality({r \in between(p, q) : at(r) = pr[2]})
        after(pr) == {q \in P : before(here, q) /\ balanced(pr, here, q)}
        ahead(pr) == {q \in P : before(q, here) /\ balanced(pr, q, here)}
        partner ==
            IF here \notin P THEN None
            ELSE IF \E pr \in pairs : at(here) = pr[1] /\ after(pr) # {}
            THEN LET pr == CHOOSE pr \in pairs : at(here) = pr[1]
                 IN CHOOSE q \in after(pr) : \A r \in after(pr) : ~before(r, q)
            ELSE IF \E pr \in pairs : at(here) = pr[2] /\ ahead(pr) # {}
            THEN LET pr == CHOOSE pr \in pairs : at(here) = pr[2]
                 IN CHOOSE q \in ahead(pr) : \A r \in ahead(pr) : ~before(q, r)
            ELSE None
        e1 == find_matching_bracket(ES)
        e2 == find_matching_bracket(e1)
    IN (~panicked /\ buf.cursor_y < n) =>
          IF partner = None
          THEN e1 = Ret(ES, "false")
          ELSE /\ e1.ret = "true"
               /\ <<Buf(e1).cursor_y, Buf(e1).cursor_x>> = partner
               /\ Buf(e1).lines = buf.lines
               /\ e2.ret = "true"
               /\ <<Buf(e2).cursor_y, Buf(e2).cursor_x>> = here

\* C31: move_word_forward() skips what is left of the word under the cursor
\* (alphanumeric characters and '_'), then whitespace, and stops there; when
\* that exhausts the line and a next line exists, the cursor goes to the
\* first non-blank character of the next line.  Nothing else changes.
C31_WordForward ==
    LET buf == Buf(ES)
        e1 == move_word_forward(ES)
        line == buf.lines[buf.cursor_y + 1]
        chars == char_heads(line)
        start == char_index_at_byte(line, buf.cursor_x)
        word_end ==
            SetMin({i \in start..Len(chars) :
                       i = Len(chars)
                       \/ ~(is_alphanumeric(chars[i + 1]) \/ chars[i + 1] = "_")})
        stop ==
            SetMin({i \in word_end..Len(chars) :
                       i = Len(chars) \/ chars[i + 1] \notin Whitespace})
        next_line == buf.lines[buf.cursor_y + 2]
        non_blank == {i \in CharStarts(next_line) :
                         next_line[i + 1] \notin Whitespace}
    IN (~panicked /\ buf.cursor_y < Len(buf.lines)
        /\ buf.cursor_x <= Len(line) /\ is_char_boundary(line, buf.cursor_x))
       => /\ IF stop >= Len(chars) /\ buf.cursor_y + 1 < Len(buf.lines)
             THEN /\ Buf(e1).cursor_y = buf.cursor_y + 1
                  /\ Buf(e1).cursor_x = IF non_blank = {} THEN Len(next_line)
                                        ELSE SetMin(non_blank)
             ELSE /\ Buf(e1).cursor_y = buf.cursor_y
                  /\ Buf(e1).cursor_x = byte_index_of_char(line, stop)
          /\ e1 = SetBuf(ES, [buf EXCEPT !.cursor_y = Buf(e1).cursor_y,
                                         !.cursor_x = Buf(e1).cursor_x])

\* C32: after a go_to_definition() that returned a symbol, go_back() returns
\* true and puts the cursor back where it was before the jump, whether or
\* not the buffer has a file path; two jumps in a row are unwound last
\* first; go_back() with an empty position stack returns false and leaves
\* the cursor where it is.
C32_JumpAndBack ==
    LET pos(e) == <<Buf(e).cursor_y, Buf(e).cursor_x>>
        j1 == go_to_definition(ES)
        j2 == go_to_definition(j1)
        b1 == go_back(j2)
        b2 == go_back(b1)
    IN ~panicked =>
          /\ j1.ret = "Some" =>
                 /\ go_back(j1).ret = "true"
                 /\ pos(go_back(j1)) = pos(ES)
          /\ (j1.ret = "Some" /\ j2.ret = "Some") =>
                 /\ b1.ret = "true" /\ pos(b1) = pos(j1)
                 /\ b2.ret = "true" /\ pos(b2) = pos(ES)
          /\ jump_stack = <<>> =>
                 /\ go_back(ES).ret = "false"
                 /\ pos(go_back(ES)) = pos(ES)

\* C33: after ensure_cursor_visible(h) with h >= 1 the cursor line is in the
\* viewport, scroll_offset <= cursor_y < scroll_offset + h; a cursor that
\* was in the viewport leaves scroll_offset as it was; the subtraction
\* cursor_y - h is only made when cursor_y >= h; nothing but scroll_offset
\* changes.
C33_CursorVisible ==
    \A h \in 1..3 :
        LET buf == Buf(ES)
            b1 == ensure_visible(buf, h)
        IN /\ b1.scroll_offset <= b1.cursor_y
           /\ b1.cursor_y < b1.scroll_offset + h
           /\ (buf.scroll_offset <= buf.cursor_y
               /\ buf.cursor_y < buf.scroll_offset + h)
              => b1.scroll_offset = buf.scroll_offset
           /\ (buf.cursor_y >= buf.scroll_offset
               /\ buf.cursor_y >= buf.scroll_offset + h)
              => buf.cursor_y - h >= 0
           /\ b1.scroll_offset >= 0
           /\ b1 = [buf EXCEPT !.scroll_offset = b1.scroll_offset]

\* the viewport was scrolled down to the cursor, the cursor then moved
\* above it
C33_Witness ==
    /\ ~panicked
    /\ Buf(ES).scroll_offset >= 1
    /\ Buf(ES).cursor_y < Buf(ES).scroll_offset

\* C34: with the cursor on a line of the buffer, move_cursor_right and
\* move_cursor_left leave it on a character boundary of a line.  From a
\* cursor on a character boundary: inside a line they step over exactly
\* one character, and the opposite move brings the cursor back; at the
\* end of a line move_cursor_right goes to column 0 of the next line, at
\* column 0 move_cursor_left goes to the end of the previous line; at the
\* end and at the start of the buffer they change nothing.
C34_MoveByCharacter ==
    LET buf == Buf(ES)
        y == buf.cursor_y
        x == buf.cursor_x
        line == buf.lines[y + 1]
        r == move_right(buf)
        l == move_left(buf)
        on_boundary(b) ==
            /\ b.cursor_y < Len(b.lines)
            /\ b.cursor_x <= Len(b.lines[b.cursor_y + 1])
            /\ is_char_boundary(b.lines[b.cursor_y + 1], b.cursor_x)
    IN (~panicked /\ y < Len(buf.lines)) =>
          /\ on_boundary(r)
          /\ on_boundary(l)
          /\ on_boundary(buf) =>
                /\ x < Len(line) =>
                      /\ r = [buf EXCEPT !.cursor_x = r.cursor_x]
                      /\ r.cursor_x > x
                      /\ chars_count(Slice(line, x, r.cursor_x)) = 1
                      /\ move_left(r) = buf
                /\ x > 0 =>
                      /\ l = [buf EXCEPT !.cursor_x = l.cursor_x]
                      /\ l.cursor_x < x
                      /\ chars_count(Slice(line, l.cursor_x, x)) = 1
                      /\ move_right(l) = buf
                /\ (x = Len(line) /\ y + 1 < Len(buf.lines)) =>
                      r = [buf EXCEPT !.cursor_y = y + 1, !.cursor_x = 0]
                /\ (x = Len(line) /\ y + 1 = Len(buf.lines)) => r = buf
                /\ (x = 0 /\ y > 0) =>
                      l = [buf EXCEPT !.cursor_y = y - 1,
                                      !.cursor_x = Len(buf.lines[y])]
                /\ (x = 0 /\ y = 0) => l = buf

\* move_cursor_right has just stepped over a two-byte character
C34_Witness ==
    /\ last.op = "move_cursor_right" /\ ~panicked
    /\ Buf(ES).cursor_y < Len(Buf(ES).lines)
    /\ Buf(ES).cursor_x >= 2
    /\ Buf(ES).cursor_x <= Len(Buf(ES).lines[Buf(ES).cursor_y + 1])
    /\ Buf(ES).lines[Buf(ES).cursor_y + 1][Buf(ES).cursor_x] \in ContBytes

\* C35: insert_newline_with_indent(false) with the cursor at (y, x) on a
\* line of the buffer splits line y at the character boundary k at or next
\* before x (k = x for a cursor on a boundary): line y keeps the text before
\* k, a new line y+1 holds exactly the text from k on, the lines before and
\* after are as they were, the cursor is at (y+1, 0), and one SplitLine
\* action, of line y and the character index of k, is recorded.
C35_NewlineSplits ==
    LET buf == Buf(ES)
        y == buf.cursor_y
        x == buf.cursor_x
        line == buf.lines[y + 1]
        e1 == insert_newline_with_indent(ES, FALSE)
        b1 == Buf(e1)
        k == Len(b1.lines[y + 1])
    IN (~panicked /\ y < Len(buf.lines)) =>
          /\ Len(b1.lines) = Len(buf.lines) + 1
          /\ b1.lines[y + 1] \o b1.lines[y + 2] = line
          /\ is_char_boundary(line, k)
          /\ k <= x
          /\ \A j \in (k + 1)..Len(line) : j <= x => ~is_char_boundary(line, j)
          /\ \A i \in 1..Len(buf.lines) :
                 /\ i < y + 1 => b1.lines[i] = buf.lines[i]
                 /\ i > y + 1 => b1.lines[i + 1] = buf.lines[i]
          /\ b1.cursor_y = y + 1
          /\ b1.cursor_x = 0
          /\ e1.pushed = ES.pushed + 1
          /\ Len(undo_stack) < max_size =>
                 e1.undo_stack =
                     Append(undo_stack,
                            SplitLine(y, chars_count(Slice(line, 0, k))))
          /\ e1.buffers = [buffers EXCEPT ![active_buffer + 1] = b1]
          /\ e1.active_buffer = active_buffer

\* a line was just split behind a two-byte character, with text after it
C35_Witness ==
    /\ last.op = "insert_newline" /\ last.pushed = 1 /\ ~panicked
    /\ Buf(ES).cursor_x = 0
    /\ Buf(ES).cursor_y >= 1
    /\ Buf(ES).cursor_y < Len(Buf(ES).lines)
    /\ Buf(ES).lines[Buf(ES).cursor_y + 1] # <<>>
    /\ Buf(ES).lines[Buf(ES).cursor_y] # <<>>
    /\ Buf(ES).lines[Buf(ES).cursor_y][Len(Buf(ES).lines[Buf(ES).cursor_y])]
           \in ContBytes

\* C36: an action recorded while one buffer was active is not applied to
\* another: right after an operation has recorded an action in the active
\* buffer A, switching to a different buffer B (next_buffer, prev_buffer,
\* open_file) or closing A and then calling undo(), or undo() and redo(),
\* leaves the lines of B as they were.
C36_HistoryKeepsToItsBuffer ==
    (~panicked /\ last.op \notin {"undo", "redo"} /\ last.pushed > 0) =>
        \A s \in {next_buffer(ES), prev_buffer(ES), close_buffer(ES)}
                 \cup {open_file(ES, p) : p \in Paths} :
            LET a_gone == Len(s.buffers) < Len(buffers)
                switched == \/ a_gone
                            \/ s.active_buffer # active_buffer
                u == undo(s)
                r == redo(u)
            IN (switched /\ ~s.panic) =>
                   /\ ~u.panic /\ Buf(u).lines = Buf(s).lines
                   /\ ~r.panic /\ Buf(r).lines = Buf(s).lines

\* C37: with the k newest recorded actions a1..ak put on the undo history
\* as one Batch, a single undo() gives the buffers that k calls of undo()
\* give on the actions one by one (ak undone first), and moves the Batch
\* as one entry to the redo history; a single redo() then gives the buffers
\* that k calls of redo() give, and moves the Batch back.
C37_BatchAsUnit ==
    \A k \in 2..3 :
        LET n == Len(undo_stack)
            front == SubSeq(undo_stack, 1, n - k)
            batch == Batch(SubSeq(undo_stack, n - k + 1, n))
            RECURSIVE undo_n(_, _)
            undo_n(e, i) == IF i = 0 THEN e ELSE undo_n(undo(e), i - 1)
            RECURSIVE redo_n(_, _)
            redo_n(e, i) == IF i = 0 THEN e ELSE redo_n(redo(e), i - 1)
            eb == [ES EXCEPT !.undo_stack = Append(front, batch)]
        IN (~panicked /\ n >= k) =>
              \A ub \in {undo(eb)} :
              \A u1 \in {undo_n(ES, k)} :
                  /\ ub.panic = u1.panic
                  /\ ~ub.panic =>
                         /\ ub.ret = "true"
                         /\ ub.buffers = u1.buffers
                         /\ ub.undo_stack = front
                         /\ ub.redo_stack = Append(redo_stack, batch)
                         /\ \A rb \in {redo(ub)} :
                            \A r1 \in {redo_n(u1, k)} :
                                /\ rb.panic = r1.panic
                                /\ ~rb.panic =>
                                       /\ rb.ret = "true"
                                       /\ rb.buffers = r1.buffers
                                       /\ rb.undo_stack = Append(front, batch)
                                       /\ rb.redo_stack = redo_stack

\* two actions were recorded one after the other, and undoing them as a
\* Batch changes the lines
C37_Witness ==
    LET n == Len(undo_stack)
        eb == [ES EXCEPT !.undo_stack =
                  Append(SubSeq(undo_stack, 1, n - 2),
                         Batch(SubSeq(undo_stack, n - 1, n)))]
    IN /\ ~panicked
       /\ n >= 2
       /\ last.op \notin {"undo", "redo"} /\ last.pushed = 1
       /\ ~undo(eb).panic
       /\ Buf(undo(eb)).lines # Buf(ES).lines

\* C38: the operations that do not edit (cursor movement, word motions,
\* line start and end, first non-blank, go_to_line, the character finds,
\* find_matching_bracket, start, update and clear selection, yank_line,
\* yank_selection, search, find_next, find_prev, next_buffer, prev_buffer)
\* leave the lines and the modified flag of every buffer and both
\* histories as they were.
C38_NonEditingFrame ==
    LET buf == Buf(ES)
        results ==
            {SetBuf(ES, b) :
                b \in {move_up(buf), move_down(buf), move_left(buf),
                       move_right(buf), move_to_line_start(buf),
                       move_to_line_end(buf), start_selection(buf),
                       update_selection(buf), clear_selection(buf)}}
            \cup {move_word_forward(ES), move_word_backward(ES),
                  move_word_end(ES), move_to_first_non_blank(ES),
                  find_matching_bracket(ES), yank_line(ES),
                  yank_selection(ES), find_next(ES), find_prev(ES),
                  next_buffer(ES), prev_buffer(ES)}
            \cup {go_to_line(ES, n) : n \in LineNums}
            \cup {find_char_forward(ES, c) : c \in Chars}
            \cup {find_char_backward(ES, c) : c \in Chars}
            \cup {find_char_till_forward(ES, c) : c \in Chars}
            \cup {find_char_till_backward(ES, c) : c \in Chars}
            \cup {search(ES, q) : q \in Queries}
    IN ~panicked =>
          \A r \in results :
              /\ Len(r.buffers) = Len(buffers)
              /\ \A i \in 1..Len(buffers) :
                     /\ r.buffers[i].lines = buffers[i].lines
                     /\ r.buffers[i].modified = buffers[i].modified
              /\ r.undo_stack = undo_stack
              /\ r.redo_stack = redo_stack
              /\ r.pushed = 0

\* a line was yanked from a modified buffer, with an action on the undo
\* history
C38_Witness ==
    /\ last.op = "yank_line" /\ ~panicked
    /\ clipboard.yank_type = "Line"
    /\ clipboard.yank_buffer # <<>>
    /\ Buf(ES).modified
    /\ undo_stack # <<>>

\* C39: in every state either search_matches is empty and current_match is
\* 0, or current_match is less than the number of matches, so that
\* search_matches[current_match] exists whenever there are matches.
C39_CurrentMatchInRange ==
    IF search_matches = <<>> THEN current_match = 0
    ELSE current_match < Len(search_matches)

\* find_next has moved past the first of several matches
C39_Witness ==
    /\ last.op = "find_next" /\ ~panicked
    /\ Len(search_matches) >= 2
    /\ current_match >= 1
    /\ <<Buf(ES).cursor_y, Buf(ES).cursor_x>> = search_matches[current_match + 1]

\* C40: no two buffers have the same file path; open_file of a path that a
\* buffer already has makes that buffer the active one and changes nothing
\* else, and an open_file that loads a file while the only buffer is the
\* empty, unmodified buffer without a path puts the loaded buffer in its
\* place.
C40_OnePathOneBuffer ==
    /\ \A i, j \in 1..Len(buffers) :
          (i # j /\ buffers[i].file_path # NoPath)
             => buffers[i].file_path # buffers[j].file_path
    /\ \A p \in Paths :
          \A e1 \in {open_file(ES, p)} :
             /\ (\E i \in 1..Len(buffers) : buffers[i].file_path = p) =>
                   /\ e1.ret = "ok"
                   /\ e1.buffers = buffers
                   /\ e1.buffers[e1.active_buffer + 1].file_path = p
                   /\ e1.undo_stack = undo_stack /\ e1.redo_stack = redo_stack
             /\ (/\ Len(buffers) = 1
                 /\ buffers[1].lines = <<(<<>>)>>
                 /\ buffers[1].file_path = NoPath
                 /\ ~buffers[1].modified) =>
                   /\ Len(e1.buffers) = 1
                   /\ e1.active_buffer = 0
                   /\ e1.ret = "ok" =>
                         /\ e1.buffers[1] = from_file(disk, p)
                         /\ e1.buffers[1].file_path = p

\* with two files open, open_file of the first one's path has switched
\* back to it
C40_Witness ==
    /\ last.op = "open_file" /\ last.ret = "ok"
    /\ Len(buffers) = 2
    /\ active_buffer = 0
    /\ buffers[1].file_path \in Paths
    /\ buffers[2].file_path \in Paths

\* C6: a step of a content-changing operation that changes the active
\* buffer's lines leaves get_content() equal to the lines joined with LF
\* and followed by the rope's trailing LF.
C6_ContentFollowsLines ==
    [][(/\ last'.op \in {"insert_char", "insert_newline", "backspace",
                       "delete_char", "delete_line", "paste_before",
                       "paste_after", "delete_selection", "undo", "redo"}
        /\ ~panicked'
        /\ active_buffer' = active_buffer
        /\ buffers'[active_buffer + 1].lines # buffers[active_buffer + 1].lines)
       => get_content(buffers'[active_buffer + 1])
              = join_lines(buffers'[active_buffer + 1].lines) \o <<LF>>]_vars

\* C7: an operation that records an action leaves the redo history empty,
\* so that a redo() issued next returns false and changes no buffer; the
\* redo history is non-empty only after steps that record nothing.
C7_RecordingClearsRedo ==
    [][/\ (Recorded(last') /\ ~panicked')
            => /\ redo_stack' = <<>>
               /\ redo(ES)'.ret = "false"
               /\ redo(ES)'.buffers = buffers'
       /\ (redo_stack' # <<>> /\ ~panicked') => ~Recorded(last')
       /\ (last'.op = "redo" /\ last'.ret = "true") => redo_stack # <<>>]_vars

\* C7 witness: an action is recorded while the redo history held an entry
C7_Witness ==
    Recorded(last) /\ last.redo_before > 0 /\ ~panicked /\ redo_stack = <<>>

\* C8: undo() that returns does so with true exactly when the undo history
\* was non-empty; it then takes the top of the undo history, applies its
\* inverse to the active buffer only, and makes it the top of the redo
\* history.  redo() is the mirror image.  An edit, one undo and one redo
\* leave both histories as they were after the edit.
C8_UndoRedoMoveTop ==
    /\ [](hist.phase = "redone" =>
              undo_stack = hist.undo_post /\ redo_stack = hist.redo_post)
    /\ [][/\ (last'.op = "undo" /\ ~panicked') =>
              /\ (last'.ret = "true") <=> (undo_stack # <<>>)
              /\ undo_stack # <<>> =>
                    LET top == undo_stack[Len(undo_stack)]
                    IN /\ undo_stack' = SubSeq(undo_stack, 1, Len(undo_stack) - 1)
                       /\ redo_stack' = Append(redo_stack, top)
                       /\ active_buffer' = active_buffer
                       /\ buffers' = apply_undo_action(ES, top).buffers
                       /\ \A i \in 1..Len(buffers) :
                              i # active_buffer + 1 => buffers'[i] = buffers[i]
          /\ (last'.op = "redo" /\ ~panicked') =>
              /\ (last'.ret = "true") <=> (redo_stack # <<>>)
              /\ redo_stack # <<>> =>
                    LET top == redo_stack[Len(redo_stack)]
                    IN /\ redo_stack' = SubSeq(redo_stack, 1, Len(redo_stack) - 1)
                       /\ undo_stack' = Append(undo_stack, top)
                       /\ active_buffer' = active_buffer
                       /\ buffers' = apply_redo_action(ES, top).buffers
                       /\ \A i \in 1..Len(buffers) :
                              i # active_buffer + 1 => buffers'[i] = buffers[i]]_vars

\* C8 witness: two edits, then the later one undone and redone
C8_Witness ==
    /\ last.op = "redo" /\ last.ret = "true"
    /\ hist.phase = "redone"
    /\ Len(undo_stack) >= 2

\* C9: both histories hold at most max_size actions; recording k actions
\* leaves the undo history holding the newest max_size of the old entries
\* followed by the new ones, in order; redo() keeps it within the cap.
C9_HistoriesCapped ==
    /\ [](Len(undo_stack) <= max_size /\ Len(redo_stack) <= max_size)
    /\ [][(Recorded(last') /\ ~panicked') =>
              LET n == Len(undo_stack')
                  old == Max(n - last'.pushed, 0)
              IN /\ n = Min(max_size, Len(undo_stack) + last'.pushed)
                 /\ SubSeq(undo_stack', 1, old)
                        = SubSeq(undo_stack, Len(undo_stack) - old + 1,
                                 Len(undo_stack))]_vars

\* C9 witness: a recording evicts the oldest entry of a full undo history
C9_Witness ==
    /\ Recorded(last) /\ ~panicked
    /\ max_size > 0
    /\ last.undo_before = max_size
    /\ Len(undo_stack) = max_size

\* C10: undo() on an empty undo history and redo() on an empty redo
\* history return false and change no buffer, neither history, nor the
\* clipboard, nor the search state.
C10_EmptyHistoryNoOp ==
    [][(\/ last'.op = "undo" /\ undo_stack = <<>>
        \/ last'.op = "redo" /\ redo_stack = <<>>)
       => /\ last'.ret = "false"
          /\ ~panicked'
          /\ UNCHANGED <<buffers, active_buffer, undo_stack, redo_stack,
                         clipboard, search_query, search_matches,
                         current_match>>]_vars

\* C10 witness: undo() finds nothing to undo in an editor that has a
\* modified buffer, a yanked line and a search query
C10_Witness ==
    /\ last.op = "undo" /\ last.ret = "false"
    /\ Buf(ES).modified
    /\ clipboard.yank_buffer # <<>>
    /\ search_query # <<>>

====
